---- MODULE Spec2Model ----
(***************************************************************************)
(* A model of the VLIW SIMD kernel generator: the scratch allocator, the   *)
(* hash and traversal emitters, the list scheduler and the driver, with    *)
(* the machine that runs the emitted bundles.                              *)
(*                                                                         *)
(* Python tuples are modelled as TLA+ sequences, so slot[k] of the source  *)
(* is slot[k+1] here, and an op (engine, slot) is <<engine, slot>>.  Op    *)
(* indices of a stream are 1-based (index i here is i-1 in the source).    *)
(***************************************************************************)
EXTENDS Integers, Sequences, FiniteSets, TLC

\* ------------------------------------------------------------------ bounds
\* Vector lane count (problem.VLEN, 8 on the real machine).
VLEN == 2
\* Longest op stream handed to the scheduler in SchedSpec.
MaxOps == 3
\* Constant values requested from the allocator are 0..MaxConstVal.
MaxConstVal == 2
\* Longest sequence of allocator calls in AllocSpec.
MaxCalls == 4
\* Bits of a machine word (32 on the real machine).
WordBits == 8
\* Forests of height 0..MaxHeight, 1..MaxRounds rounds, 1..MaxBatches batches
\* of VLEN items, data drawn from 1..DataSeeds.
MaxHeight == 2
MaxRounds == 4
MaxBatches == 2
DataSeeds == 2

VARIABLES
    SLOT_LIMITS,   \* problem.SLOT_LIMITS: engine -> slots per bundle
    weights,       \* which copy of get_latency_weight: "scarcity" | "fixed"
    sched,         \* the locals of VLIWScheduler.build in packing mode
    pc,            \* where the modelled run stands
    alloc,         \* a kernel_memory.ScratchAllocator object
    calls,         \* the allocator calls made so far, with what each returned
    kern,          \* build_kernel: its arguments, the KernelBuilder, its locals
    streams,       \* the op streams build_kernel has handed to self.build
    mach           \* the machine that runs the emitted bundles

vars == <<SLOT_LIMITS, weights, sched, pc, alloc, calls, kern, streams, mach>>
schedVars == <<SLOT_LIMITS, weights, sched>>
allocVars == <<alloc, calls>>
kernVars == <<kern, streams, mach>>

\* ------------------------------------------------------------- utilities
Max(a, b) == IF a >= b THEN a ELSE b
Min(a, b) == IF a <= b THEN a ELSE b

\* The element of a one-element set.  Written The({F(v) : v \in {e}}), it
\* fixes the value of e before F is applied to it, so that a sweep which
\* hands its result on from step to step computes every step once.
The(S) == CHOOSE r \in S : TRUE

\* max(S), 0 for the empty set
SetMax(S) == IF S = {} THEN 0 ELSE CHOOSE x \in S : \A y \in S : y <= x

\* for i in range(lo, hi + 1): st = Body(st, i).  The range is run as two
\* halves, the first finished before the second starts, so the evaluation
\* nests to the logarithm of its length.
RECURSIVE ForRange(_, _, _, _)
ForRange(Body(_, _), st, lo, hi) ==
    IF lo > hi THEN st
    ELSE IF lo = hi THEN Body(st, lo)
    ELSE The({ForRange(Body, left, ((lo + hi) \div 2) + 1, hi) :
                 left \in {ForRange(Body, st, lo, (lo + hi) \div 2)}})

\* while Cond(st): st = Body(st), for at most 2^k iterations
RECURSIVE WhileUpTo(_, _, _, _)
WhileUpTo(Cond(_), Body(_), st, k) ==
    IF k = 0 THEN (IF Cond(st) THEN Body(st) ELSE st)
    ELSE The({WhileUpTo(Cond, Body, half, k - 1) :
                 half \in {WhileUpTo(Cond, Body, st, k - 1)}})

RECURSIVE Pow2(_)
Pow2(n) == IF n <= 0 THEN 1 ELSE 2 * Pow2(n - 1)

\* the least k with 2^k >= n
Levels(n) == CHOOSE k \in 0..n : Pow2(k) >= n /\ \A j \in 0..(k - 1) : Pow2(j) < n

SeqRange(s) == {s[k] : k \in 1..Len(s)}

\* set(range(base, base + VLEN))
VRange(base) == base .. (base + VLEN - 1)

Engines == {"load", "store", "alu", "valu", "flow", "debug"}

\* --------------------------------------------------- read and write sets
\* A write-set that takes a vector op to write its first lane only.
get_writes_FirstLane(engine, slot) ==
    IF engine \in {"alu", "valu"} THEN {slot[2]}
    ELSE IF engine = "load" /\ slot[1] \in {"const", "load", "vload"} THEN {slot[2]}
    ELSE IF engine = "load" /\ slot[1] = "load_offset" THEN {slot[2] + slot[4]}
    ELSE IF engine = "flow" /\ slot[1] \in {"select", "vselect", "add_imm"} THEN {slot[2]}
    ELSE {}

get_writes(engine, slot) ==
    CASE engine = "debug" -> {}
      [] engine = "alu" -> {slot[2]}
      [] engine = "valu" -> VRange(slot[2])
      [] engine = "load" ->
            CASE slot[1] = "const" -> {slot[2]}
              [] slot[1] = "load" -> {slot[2]}
              [] slot[1] = "vload" -> VRange(slot[2])
              [] slot[1] = "load_offset" -> {slot[2] + slot[4]}
              [] OTHER -> {}
      [] engine = "store" -> {}
      [] engine = "flow" ->
            CASE slot[1] = "select" -> {slot[2]}
              [] slot[1] = "vselect" -> VRange(slot[2])
              [] slot[1] = "add_imm" -> {slot[2]}
              [] OTHER -> {}
      [] OTHER -> {}

get_reads(engine, slot) ==
    CASE engine = "debug" -> {}
      [] engine = "alu" -> {slot[3], slot[4]}
      [] engine = "valu" ->
            CASE slot[1] = "vbroadcast" -> {slot[3]}
              [] slot[1] = "multiply_add" ->
                    VRange(slot[3]) \cup VRange(slot[4]) \cup VRange(slot[5])
              [] OTHER -> VRange(slot[3]) \cup VRange(slot[4])
      [] engine = "load" ->
            CASE slot[1] = "const" -> {}
              [] slot[1] \in {"load", "vload"} -> {slot[3]}
              [] slot[1] = "load_offset" -> {slot[3] + slot[4]}
              [] OTHER -> {}
      [] engine = "store" ->
            CASE slot[1] = "store" -> {slot[2], slot[3]}
              [] slot[1] = "vstore" -> {slot[2]} \cup VRange(slot[3])
              [] OTHER -> {}
      [] engine = "flow" ->
            CASE slot[1] = "select" -> {slot[3], slot[4], slot[5]}
              [] slot[1] = "vselect" ->
                    {slot[3]} \cup VRange(slot[4]) \cup VRange(slot[5])
              [] slot[1] = "add_imm" -> {slot[3]}
              [] slot[1] \in {"cond_jump", "cond_jump_rel"} -> {slot[2]}
              [] OTHER -> {}
      [] OTHER -> {}

OpReads(slots) == [i \in 1..Len(slots) |-> get_reads(slots[i][1], slots[i][2])]
OpWrites(slots) == [i \in 1..Len(slots) |-> get_writes(slots[i][1], slots[i][2])]

\* ------------------------------------------------------ dependency graph
\* A sweep that takes a debug op for a reader of the vector it observes: the
\* last writers of its words become its predecessors.
PredStep_DebugObserves(slots, op_reads, op_writes, st, i) ==
    IF slots[i][1] = "debug"
    THEN [st EXCEPT !.pred[i] =
             {st.last_write[a] : a \in VRange(slots[i][2][2]) \cap DOMAIN st.last_write}]
    ELSE [last_write |-> [a \in DOMAIN st.last_write \cup op_writes[i] |->
                            IF a \in op_writes[i] THEN i ELSE st.last_write[a]],
          pred |-> [st.pred EXCEPT ![i] =
                      {st.last_write[a] :
                          a \in (op_reads[i] \cup op_writes[i]) \cap DOMAIN st.last_write}]]

\* pred[i]: the last writer of every word op i reads (RAW) or writes (WAW).
\* One iteration of the loop over i, on st = [last_write, pred]:
PredStep(slots, op_reads, op_writes, st, i) ==
    IF slots[i][1] = "debug" THEN st
    ELSE [last_write |-> [a \in DOMAIN st.last_write \cup op_writes[i] |->
                            IF a \in op_writes[i] THEN i ELSE st.last_write[a]],
          pred |-> [st.pred EXCEPT ![i] =
                      {st.last_write[a] :
                          a \in (op_reads[i] \cup op_writes[i]) \cap DOMAIN st.last_write}]]

PredSweep(slots, op_reads, op_writes) ==
    ForRange(LAMBDA st, i : PredStep(slots, op_reads, op_writes, st, i),
             [last_write |-> <<>>, pred |-> [i \in 1..Len(slots) |-> {}]],
             1, Len(slots)).pred

\* A sweep that forgets the RAW edges: only writers are ordered.
BuildPred_WawOnly(slots, op_reads, op_writes) ==
    PredSweep(slots, [i \in 1..Len(slots) |-> {}], op_writes)

BuildPred(slots, op_reads, op_writes) ==
    PredSweep(slots, op_reads, op_writes)

\* war_pred[i]: every earlier reader of a word op i writes.
\* One iteration of the loop over i, on st = [last_read, war_pred]:
WarStep(slots, op_reads, op_writes, st, i) ==
    IF slots[i][1] = "debug" THEN st
    ELSE [last_read |-> [a \in DOMAIN st.last_read \cup op_reads[i] |->
                           (IF a \in DOMAIN st.last_read THEN st.last_read[a] ELSE {})
                           \cup (IF a \in op_reads[i] THEN {i} ELSE {})],
          war_pred |-> [st.war_pred EXCEPT ![i] =
                          UNION {{reader \in st.last_read[a] : reader < i} :
                                    a \in op_writes[i] \cap DOMAIN st.last_read}]]

BuildWarPred(slots, op_reads, op_writes) ==
    ForRange(LAMBDA st, i : WarStep(slots, op_reads, op_writes, st, i),
             [last_read |-> <<>>, war_pred |-> [i \in 1..Len(slots) |-> {}]],
             1, Len(slots)).war_pred

Succ(pred, i) == {j \in 1..Len(pred) : i \in pred[j]}

\* ------------------------------------------------------- latency weights
Limit(engine) == IF engine \in DOMAIN SLOT_LIMITS THEN SLOT_LIMITS[engine] ELSE 1

base_limit == SetMax({SLOT_LIMITS[k] : k \in DOMAIN SLOT_LIMITS \ {"debug"}})
load_limit == Limit("load")
load_weight == (base_limit + load_limit - 1) \div load_limit
load_bias == load_weight * 2

\* kernel_scheduler.py: scarcity weights capped against the load roofline
ScarcityWeight(engine) ==
    IF engine = "debug" THEN 0
    ELSE IF engine = "load" THEN load_bias
    ELSE LET limit == Limit(engine)
             weight == (base_limit + limit - 1) \div limit
         IN IF engine \in {"flow", "store"} THEN Min(weight, load_weight) ELSE weight

\* perf_takehome.py: the fixed weights of KernelBuilder.build
FixedWeight(engine) ==
    CASE engine = "load" -> 3
      [] engine = "store" -> 3
      [] engine = "flow" -> 2
      [] engine = "valu" -> 1
      [] engine = "alu" -> 1
      [] OTHER -> 0

get_latency_weight(engine) ==
    IF weights = "fixed" THEN FixedWeight(engine) ELSE ScarcityWeight(engine)

\* height[i]: longest weighted path from i to a leaf of the successor graph.
\* One iteration of `for i in range(n - 1, -1, -1)`:
HeightStep(slots, pred, height, i) ==
    LET weight == get_latency_weight(slots[i][1])
        succ == Succ(pred, i)
    IN [height EXCEPT ![i] = IF succ # {}
                             THEN weight + SetMax({height[s] : s \in succ})
                             ELSE weight]

BuildHeight(slots, pred) ==
    ForRange(LAMBDA height, k : HeightStep(slots, pred, height, Len(slots) + 1 - k),
             [i \in 1..Len(slots) |-> 0], 1, Len(slots))

\* ------------------------------------------------------------ one cycle
engine_priority(engine) ==
    CASE engine = "load" -> 0
      [] engine = "store" -> 1
      [] engine = "valu" -> 2
      [] engine = "alu" -> 3
      [] engine = "flow" -> 4
      [] engine = "debug" -> 5
      [] OTHER -> 10

\* A sort key that is the op index alone: the ready list in stream order.
KeyLess_IndexOnly(slots, height, i, j) == i < j

\* A sort key without the op index: (-height[i], engine_priority).
KeyLess_NoIndex(slots, height, i, j) ==
    LET pi == engine_priority(slots[i][1])
        pj == engine_priority(slots[j][1])
    IN \/ height[i] > height[j]
       \/ height[i] = height[j] /\ pi < pj

\* key(i) < key(j) for the key (-height[i], engine_priority, i)
KeyLess(slots, height, i, j) ==
    LET pi == engine_priority(slots[i][1])
        pj == engine_priority(slots[j][1])
    IN \/ height[i] > height[j]
       \/ height[i] = height[j] /\ pi < pj
       \/ height[i] = height[j] /\ pi = pj /\ i < j

\* ready.sort(key=...): a stable insertion sort of the list; x goes behind
\* the elements of the sorted list whose key is not greater than its own
InsertByKey(slots, height, sorted, x) ==
    LET p == Cardinality({k \in 1..Len(sorted) : ~KeyLess(slots, height, x, sorted[k])})
    IN SubSeq(sorted, 1, p) \o <<x>> \o SubSeq(sorted, p + 1, Len(sorted))

SortReady(slots, height, ready) ==
    ForRange(LAMBDA sorted, k : InsertByKey(slots, height, sorted, ready[k]),
             <<>>, 1, Len(ready))

\* A same-cycle WAR test that never holds an op back.
WarBlocked_Never(s, st, i) == FALSE

\* The four reasons an attempted op is put back on new_ready.
WarBlocked(s, st, i) ==
    \E p \in s.war_pred[i] : p \notin st.scheduled

\* A limit check that never fires.
SlotFull_Never(st, engine) == FALSE

SlotFull(st, engine) == st.slot_counts[engine] >= Limit(engine)

ReadsBundleWrite(s, st, i) == s.op_reads[i] \cap st.bundle_writes # {}

WritesBundleWrite(s, st, i) == s.op_writes[i] \cap st.bundle_writes # {}

\* bundle[engine].append(slot) and the bookkeeping that follows it
PlaceOp(s, st, i) ==
    LET engine == s.slots[i][1]
        slot == s.slots[i][2]
    IN [st EXCEPT !.bundle[engine] = Append(@, slot),
                  !.slot_counts[engine] = @ + 1,
                  !.bundle_writes = @ \cup s.op_writes[i],
                  !.bundle_reads = @ \cup s.op_reads[i],
                  !.scheduled = @ \cup {i},
                  !.scheduled_this_cycle = Append(@, i),
                  !.progress = TRUE]

\* A debug placement that enters the word it observes into bundle_writes.
PlaceDebug_AsWrite(s, st, i) ==
    [st EXCEPT !.bundle["debug"] = Append(@, s.slots[i][2]),
               !.bundle_writes = @ \cup {s.slots[i][2][2]},
               !.scheduled = @ \cup {i},
               !.scheduled_this_cycle = Append(@, i),
               !.progress = TRUE]

PlaceDebug(s, st, i) ==
    [st EXCEPT !.bundle["debug"] = Append(@, s.slots[i][2]),
               !.scheduled = @ \cup {i},
               !.scheduled_this_cycle = Append(@, i),
               !.progress = TRUE]

\* A deferral that forgets the op instead of keeping it for a later sweep.
Defer_Forget(st, i) == st

Defer(st, i) == [st EXCEPT !.new_ready = Append(@, i)]

\* the body of `for i in ready_set`
FillStep(s, st, i) ==
    LET engine == s.slots[i][1]
    IN IF engine = "debug" THEN PlaceDebug(s, st, i)
       ELSE IF WarBlocked(s, st, i) THEN Defer(st, i)
       ELSE IF SlotFull(st, engine) THEN Defer(st, i)
       ELSE IF ReadsBundleWrite(s, st, i) THEN Defer(st, i)
       ELSE IF WritesBundleWrite(s, st, i) THEN Defer(st, i)
       ELSE PlaceOp(s, st, i)

\* one `for i in ready_set` sweep
FillPass(s, ready_set, st) ==
    ForRange(LAMBDA t, k : FillStep(s, t, ready_set[k]), st, 1, Len(ready_set))

\* A fill that sweeps the ready list once and never comes back to an op it
\* has put back.
FillLoop_OnePass(s, ready_set, st) ==
    IF ~(st.progress /\ ready_set # <<>>) THEN [st EXCEPT !.new_ready = ready_set]
    ELSE FillPass(s, ready_set, [st EXCEPT !.progress = FALSE, !.new_ready = <<>>])

\* while progress and ready_set: sweep again over what was put back
RECURSIVE FillLoop(_, _, _)
FillLoop(s, ready_set, st) ==
    IF ~(st.progress /\ ready_set # <<>>) THEN [st EXCEPT !.new_ready = ready_set]
    ELSE The({FillLoop(s, nst.new_ready, nst) :
                 nst \in {FillPass(s, ready_set,
                                   [st EXCEPT !.progress = FALSE, !.new_ready = <<>>])}})

EmptyBundle == [e \in Engines |-> <<>>]

FillBundle(s) ==
    The({FillLoop(s, ready_set,
                  [bundle |-> EmptyBundle,
                   slot_counts |-> [e \in Engines |-> 0],
                   bundle_writes |-> {},
                   bundle_reads |-> {},
                   scheduled |-> s.scheduled,
                   scheduled_this_cycle |-> <<>>,
                   new_ready |-> <<>>,
                   progress |-> TRUE]) :
         ready_set \in {SortReady(s.slots, s.height, s.ready)}})

\* the body of `for i in scheduled_this_cycle: for j in range(n)`, on
\* r = [pred, ready]: drop i from pred[j]
ReleaseStep(r, scheduled, i, j) ==
    IF j \notin scheduled /\ i \in r.pred[j]
    THEN [pred |-> [r.pred EXCEPT ![j] = @ \ {i}],
          ready |-> IF r.pred[j] = {i} /\ j \notin SeqRange(r.ready)
                    THEN Append(r.ready, j) ELSE r.ready]
    ELSE r

BundleEmpty(bundle) == \A e \in DOMAIN bundle : bundle[e] = <<>>

\* one iteration of `while ready:`
Released(s, st) ==
    ForRange(LAMBDA r, k :
                ForRange(LAMBDA rj, j :
                            ReleaseStep(rj, st.scheduled, st.scheduled_this_cycle[k], j),
                         r, 1, Len(s.pred)),
             [pred |-> s.pred, ready |-> st.new_ready],
             1, Len(st.scheduled_this_cycle))

Cycle(s) ==
    The({The({[s EXCEPT !.scheduled = st.scheduled,
                        !.instrs = IF BundleEmpty(st.bundle) THEN @
                                   ELSE Append(@, st.bundle),
                        !.cycles = IF BundleEmpty(st.bundle) THEN @
                                   ELSE Append(@, st.scheduled_this_cycle),
                        !.pred = r.pred,
                        !.ready = r.ready] :
              r \in {Released(s, st)}}) :
         st \in {FillBundle(s)}})

\* the locals of build() when the cycle loop is entered
InitialReady(pred) ==
    LET idx == {i \in 1..Len(pred) : Cardinality(pred[i]) = 0}
    IN [k \in 1..Cardinality(idx) |->
          CHOOSE i \in idx : Cardinality({j \in idx : j < i}) = k - 1]

SchedStart(slots) ==
    The({The({[slots |-> slots,
               op_reads |-> op_reads,
               op_writes |-> op_writes,
               pred |-> pred,
               war_pred |-> BuildWarPred(slots, op_reads, op_writes),
               height |-> BuildHeight(slots, pred),
               ready |-> InitialReady(pred),
               scheduled |-> {},
               instrs |-> <<>>,
               cycles |-> <<>>] :
              pred \in {BuildPred(slots, op_reads, op_writes)}}) :
         op_reads \in {OpReads(slots)}, op_writes \in {OpWrites(slots)}})

\* `while ready:` run to its end; a cycle that is entered places an op, so
\* the loop is over after Len(slots) iterations at most
RunCycles(s) ==
    WhileUpTo(LAMBDA t : t.ready # <<>>, LAMBDA t : Cycle(t), s, Levels(Len(s.slots)))

TrivialBuild(slots) ==
    [i \in 1..Len(slots) |-> [EmptyBundle EXCEPT ![slots[i][1]] = <<slots[i][2]>>]]

\* A build that packs whatever the vliw flag says.
VLIWBuild_AlwaysPack(slots, vliw) ==
    The({RunCycles(s).instrs : s \in {SchedStart(slots)}})

VLIWBuild(slots, vliw) ==
    IF ~vliw THEN TrivialBuild(slots)
    ELSE The({RunCycles(s).instrs : s \in {SchedStart(slots)}})

\* ------------------------------------------------------ scratch allocator
\* kernel_memory.ScratchAllocator.  A name is a sequence: <<>> for None,
\* <<"vc", val>> for f"vc_{val}".
None == <<>>

\* problem.SCRATCH_SIZE
SCRATCH_SIZE == 1536

\* {engine: [slot]}
Bundle1(engine, slot) == [EmptyBundle EXCEPT ![engine] = <<slot>>]

\* m[k] = v
DictSet(m, k, v) == [x \in DOMAIN m \cup {k} |-> IF x = k THEN v ELSE m[x]]

\* ScratchAllocator(vlen, scratch_size)
ScratchAllocator(vlen, scratch_size) ==
    [vlen |-> vlen,
     scratch_size |-> scratch_size,
     scratch |-> <<>>,
     scratch_debug |-> <<>>,
     scratch_ptr |-> 0,
     const_map |-> <<>>,
     vec_const_map |-> <<>>]

\* An alloc_scratch that hands out the pointer without moving it.
alloc_scratch_NoAdvance(a, name, length) ==
    LET addr == a.scratch_ptr
        a1 == IF name # None
              THEN [a EXCEPT !.scratch = DictSet(@, name, addr),
                             !.scratch_debug = DictSet(@, addr, <<name, length>>)]
              ELSE a
    IN [alloc |-> a1, addr |-> addr, instrs |-> <<>>,
        raised |-> ~(a1.scratch_ptr + length <= a1.scratch_size)]

\* alloc_scratch: the pointer moves before the assert looks at it, so a
\* raising call leaves the object with the pointer past scratch_size.
alloc_scratch(a, name, length) ==
    LET addr == a.scratch_ptr
        a1 == IF name # None
              THEN [a EXCEPT !.scratch = DictSet(@, name, addr),
                             !.scratch_debug = DictSet(@, addr, <<name, length>>)]
              ELSE a
        a2 == [a1 EXCEPT !.scratch_ptr = @ + length]
    IN [alloc |-> a2, addr |-> addr, instrs |-> <<>>,
        raised |-> ~(a2.scratch_ptr <= a2.scratch_size)]

\* A scratch_const that does not remember the value it placed.
scratch_const_NoCache(a, val, name) ==
    LET r == alloc_scratch(a, name, 1)
    IN IF r.raised THEN r
       ELSE [alloc |-> r.alloc,
             addr |-> r.addr,
             instrs |-> <<Bundle1("load", <<"const", r.addr, val>>)>>,
             raised |-> FALSE]

\* scratch_const: (addr, instrs)
scratch_const(a, val, name) ==
    IF val \notin DOMAIN a.const_map
    THEN LET r == alloc_scratch(a, name, 1)
         IN IF r.raised THEN r
            ELSE [alloc |-> [r.alloc EXCEPT !.const_map = DictSet(@, val, r.addr)],
                  addr |-> r.addr,
                  instrs |-> <<Bundle1("load", <<"const", r.addr, val>>)>>,
                  raised |-> FALSE]
    ELSE [alloc |-> a, addr |-> a.const_map[val], instrs |-> <<>>, raised |-> FALSE]

\* A vec_const that does not remember the vector it placed.
vec_const_NoCache(a, val) ==
    LET sc == scratch_const(a, val, None)
        r == alloc_scratch(sc.alloc, <<"vc", val>>, sc.alloc.vlen)
    IN IF sc.raised THEN sc
       ELSE IF r.raised THEN r
       ELSE [alloc |-> r.alloc,
             addr |-> r.addr,
             instrs |-> sc.instrs \o
                        <<Bundle1("valu", <<"vbroadcast", r.addr, sc.addr>>)>>,
             raised |-> FALSE]

\* A vec_const whose vbroadcast reads the vector region, not the scalar.
vec_const_BroadcastFromVector(a, val) ==
    IF val \notin DOMAIN a.vec_const_map
    THEN LET sc == scratch_const(a, val, None)
             r == alloc_scratch(sc.alloc, <<"vc", val>>, sc.alloc.vlen)
         IN IF sc.raised THEN sc
            ELSE IF r.raised THEN r
            ELSE [alloc |-> [r.alloc EXCEPT !.vec_const_map = DictSet(@, val, r.addr)],
                  addr |-> r.addr,
                  instrs |-> sc.instrs \o
                             <<Bundle1("valu", <<"vbroadcast", r.addr, r.addr>>)>>,
                  raised |-> FALSE]
    ELSE [alloc |-> a, addr |-> a.vec_const_map[val], instrs |-> <<>>, raised |-> FALSE]

\* vec_const: (addr, instrs)
vec_const(a, val) ==
    IF val \notin DOMAIN a.vec_const_map
    THEN LET sc == scratch_const(a, val, None)
             r == alloc_scratch(sc.alloc, <<"vc", val>>, sc.alloc.vlen)
         IN IF sc.raised THEN sc
            ELSE IF r.raised THEN r
            ELSE [alloc |-> [r.alloc EXCEPT !.vec_const_map = DictSet(@, val, r.addr)],
                  addr |-> r.addr,
                  instrs |-> sc.instrs \o
                             <<Bundle1("valu", <<"vbroadcast", r.addr, sc.addr>>)>>,
                  raised |-> FALSE]
    ELSE [alloc |-> a, addr |-> a.vec_const_map[val], instrs |-> <<>>, raised |-> FALSE]

\* ---------------------------------------------------------- the machine
\* The machine of problem.py, with words of WordBits bits (32 on the real
\* machine).  Every result is reduced modulo 2^WordBits.
WordMod == Pow2(WordBits)

\* a bitwise op, bit by bit: f is applied to the low bits
RECURSIVE BitOp(_, _, _, _)
BitOp(op, a, b, n) ==
    IF n = 0 THEN 0
    ELSE LET x == a % 2
             y == b % 2
             bit == CASE op = "^" -> (x + y) % 2
                      [] op = "&" -> x * y
                      [] op = "|" -> Max(x, y)
         IN bit + 2 * BitOp(op, a \div 2, b \div 2, n - 1)

\* Machine.alu(op, a1, a2)
MachineAlu(op, a1, a2) ==
    CASE op = "+" -> (a1 + a2) % WordMod
      [] op = "-" -> (a1 - a2) % WordMod
      [] op = "*" -> (a1 * a2) % WordMod
      [] op \in {"^", "&", "|"} -> BitOp(op, a1, a2, WordBits)
      [] op = "<<" -> IF a2 >= WordBits THEN 0 ELSE (a1 * Pow2(a2)) % WordMod
      [] op = ">>" -> IF a2 >= WordBits THEN 0 ELSE a1 \div Pow2(a2)
      [] op = "<" -> IF a1 < a2 THEN 1 ELSE 0
      [] op = "==" -> IF a1 = a2 THEN 1 ELSE 0

\* A set of word writes: address -> value.  Later writes win.
NoWrites == <<>>
Over(old, new) ==
    [a \in DOMAIN old \cup DOMAIN new |-> IF a \in DOMAIN new THEN new[a] ELSE old[a]]

\* Machine.alu/valu/load/store/flow: what one slot, reading the scratch and
\* the memory as they were when the bundle began, asks to be written:
\* sw to the scratch, mw to the memory.
SlotEffect(scratch, mem, engine, slot) ==
    LET op == slot[1]
    IN CASE engine = "alu" ->
              [sw |-> (slot[2] :> MachineAlu(op, scratch[slot[3]], scratch[slot[4]])),
               mw |-> NoWrites]
         [] engine = "valu" /\ op = "vbroadcast" ->
              [sw |-> [a \in VRange(slot[2]) |-> scratch[slot[3]]], mw |-> NoWrites]
         [] engine = "valu" /\ op = "multiply_add" ->
              [sw |-> [a \in VRange(slot[2]) |->
                         (scratch[slot[3] + (a - slot[2])] * scratch[slot[4] + (a - slot[2])]
                          + scratch[slot[5] + (a - slot[2])]) % WordMod],
               mw |-> NoWrites]
         [] engine = "valu" ->
              [sw |-> [a \in VRange(slot[2]) |->
                         MachineAlu(op, scratch[slot[3] + (a - slot[2])],
                                        scratch[slot[4] + (a - slot[2])])],
               mw |-> NoWrites]
         [] engine = "load" /\ op = "const" ->
              [sw |-> (slot[2] :> (slot[3] % WordMod)), mw |-> NoWrites]
         [] engine = "load" /\ op = "load" ->
              [sw |-> (slot[2] :> mem[scratch[slot[3]]]), mw |-> NoWrites]
         [] engine = "load" /\ op = "load_offset" ->
              [sw |-> ((slot[2] + slot[4]) :> mem[scratch[slot[3] + slot[4]]]),
               mw |-> NoWrites]
         [] engine = "load" /\ op = "vload" ->
              [sw |-> [a \in VRange(slot[2]) |-> mem[scratch[slot[3]] + (a - slot[2])]],
               mw |-> NoWrites]
         [] engine = "store" /\ op = "store" ->
              [sw |-> NoWrites, mw |-> (scratch[slot[2]] :> scratch[slot[3]])]
         [] engine = "store" /\ op = "vstore" ->
              [sw |-> NoWrites,
               mw |-> [x \in VRange(scratch[slot[2]]) |->
                         scratch[slot[3] + (x - scratch[slot[2]])]]]
         [] engine = "flow" /\ op = "select" ->
              [sw |-> (slot[2] :> (IF scratch[slot[3]] # 0 THEN scratch[slot[4]]
                                   ELSE scratch[slot[5]])),
               mw |-> NoWrites]
         [] engine = "flow" /\ op = "vselect" ->
              [sw |-> [a \in VRange(slot[2]) |->
                         IF scratch[slot[3] + (a - slot[2])] # 0
                         THEN scratch[slot[4] + (a - slot[2])]
                         ELSE scratch[slot[5] + (a - slot[2])]],
               mw |-> NoWrites]
         [] engine = "flow" /\ op = "add_imm" ->
              [sw |-> (slot[2] :> ((scratch[slot[3]] + slot[4]) % WordMod)),
               mw |-> NoWrites]
         [] OTHER -> [sw |-> NoWrites, mw |-> NoWrites]   \* pause, debug

\* the slots of a bundle, engine after engine
EngineOrder == <<"load", "store", "alu", "valu", "flow", "debug">>
RECURSIVE BundleOps(_, _)
BundleOps(bundle, e) ==
    IF e > Len(EngineOrder) THEN <<>>
    ELSE [k \in 1..Len(bundle[EngineOrder[e]]) |->
             <<EngineOrder[e], bundle[EngineOrder[e]][k]>>] \o BundleOps(bundle, e + 1)

\* the writes of one more slot of the bundle
AddSlotWrites(scratch, mem, acc, op) ==
    The({[sw |-> Over(acc.sw, w.sw), mw |-> Over(acc.mw, w.mw)] :
         w \in {SlotEffect(scratch, mem, op[1], op[2])}})

GatherWrites(scratch, mem, ops) ==
    ForRange(LAMBDA acc, k : AddSlotWrites(scratch, mem, acc, ops[k]),
             [sw |-> NoWrites, mw |-> NoWrites], 1, Len(ops))

\* the words of old with the writes that fall inside it applied
Apply(old, writes) ==
    [a \in DOMAIN old |-> IF a \in DOMAIN writes THEN writes[a] ELSE old[a]]

HasPause(bundle) == \E k \in 1..Len(bundle["flow"]) : bundle["flow"][k][1] = "pause"

\* Machine.step: every slot of the bundle reads the state the bundle began
\* with; the writes land when all have read.
MachineStep(m, bundle) ==
    The({[m EXCEPT !.scratch = Apply(@, w.sw),
                   !.mem = Apply(@, w.mw),
                   !.pc = @ + 1,
                   !.state = IF HasPause(bundle) THEN "paused" ELSE @] :
         w \in {The({GatherWrites(m.scratch, m.mem, ops) :
                     ops \in {BundleOps(bundle, 1)}})}})

\* the ops of a stream executed one at a time, in stream order
SequentialStep(m, op) ==
    The({[m EXCEPT !.scratch = Apply(@, w.sw), !.mem = Apply(@, w.mw)] :
         w \in {SlotEffect(m.scratch, m.mem, op[1], op[2])}})

SequentialRun(m, ops) ==
    ForRange(LAMBDA t, k : SequentialStep(t, ops[k]), m, 1, Len(ops))

\* problem.HASH_STAGES, (op1, val1, op2, op3, val3) per stage: the six stages
\* of the machine's hash with their operators, the constants cut to the word
\* and the shift amounts folded into 1..WordBits-1.
FoldShift(n) == ((n - 1) % (WordBits - 1)) + 1
HASH_STAGES ==
    << <<"+", 23830 % WordMod, "+", "<<", FoldShift(12)>>,
       <<"^", 49724 % WordMod, "^", ">>", FoldShift(19)>>,
       <<"+", 26545 % WordMod, "+", "<<", FoldShift(5)>>,
       <<"+", 25708 % WordMod, "^", "<<", FoldShift(9)>>,
       <<"+", 18117 % WordMod, "+", "<<", FoldShift(3)>>,
       <<"^", 20233 % WordMod, "^", ">>", FoldShift(16)>> >>

\* problem.myhash: a = op2(op1(a, val1), op3(a, val3)) stage after stage
RECURSIVE myhash_from(_, _)
myhash_from(a, hi) ==
    IF hi > Len(HASH_STAGES) THEN a
    ELSE LET st == HASH_STAGES[hi]
         IN The({myhash_from(na, hi + 1) :
                    na \in {MachineAlu(st[3], MachineAlu(st[1], a, st[2]),
                                              MachineAlu(st[4], a, st[5]))}})

myhash(a) == myhash_from(a, 1)

\* problem.build_mem_image: the header, the forest, the indices, the values,
\* and room to spare.
HeaderWords == 7
ExtraRoom == 2 * VLEN
NNodes(forest_height) == Pow2(forest_height + 1) - 1

build_mem_image(forest_height, rounds, forest, indices, values) ==
    LET n_nodes == Len(forest)
        batch_size == Len(indices)
        forest_values_p == HeaderWords
        inp_indices_p == forest_values_p + n_nodes
        inp_values_p == inp_indices_p + batch_size
        header == <<rounds, n_nodes, batch_size, forest_height,
                    forest_values_p, inp_indices_p, inp_values_p>>
        words == header \o forest \o indices \o values \o [k \in 1..ExtraRoom |-> 0]
    IN [a \in 0..(Len(words) - 1) |-> words[a + 1]]

\* problem.reference_kernel2: one item of one round, on the flat memory
RefItem(mem, i) ==
    LET idx == mem[mem[5] + i]
        val == myhash(MachineAlu("^", mem[mem[6] + i], mem[mem[4] + idx]))
        nxt == 2 * idx + (IF val % 2 = 0 THEN 1 ELSE 2)
        wrapped == IF nxt >= mem[1] THEN 0 ELSE nxt
    IN [mem EXCEPT ![mem[6] + i] = val, ![mem[5] + i] = wrapped]

\* for h in range(rounds): for i in range(batch_size)
reference_kernel2(mem) ==
    ForRange(LAMBDA m, h : ForRange(LAMBDA t, i : RefItem(t, i), m, 0, mem[2] - 1),
             mem, 0, mem[0] - 1)

\* ------------------------------------------------------ the kernel builder
\* perf_takehome.KernelBuilder: the object, and build_kernel in stages.
\* An operator that changes the builder returns it with its result; the
\* stages of build_kernel hand on a frame [kb, loc]: the builder and the
\* local variables of build_kernel assigned so far.
KernelBuilder ==
    [instrs |-> <<>>,
     scratch |-> <<>>,
     scratch_debug |-> <<>>,
     scratch_ptr |-> 0,
     const_map |-> <<>>,
     vec_const_map |-> <<>>,
     raised |-> FALSE]

KB_add(kb, engine, slot) == [kb EXCEPT !.instrs = Append(@, Bundle1(engine, slot))]

KB_add_bundle(kb, bundle) == [kb EXCEPT !.instrs = Append(@, bundle)]

KB_alloc_scratch(kb0, name, length) ==
    The({LET addr == kb.scratch_ptr
             kb1 == IF name # None
                    THEN [kb EXCEPT !.scratch = DictSet(@, name, addr),
                                    !.scratch_debug = DictSet(@, addr, <<name, length>>)]
                    ELSE kb
         IN [kb |-> [kb1 EXCEPT !.scratch_ptr = @ + length,
                                !.raised = @ \/ ~(addr + length <= SCRATCH_SIZE)],
             addr |-> addr] :
         kb \in {kb0}})

\* A scratch_const that places the value but emits no load for it.
KB_scratch_const_NoLoad(kb0, val, name) ==
    The({IF val \notin DOMAIN kb.const_map
         THEN The({[kb |-> [r.kb EXCEPT !.const_map = DictSet(@, val, r.addr)],
                    addr |-> r.addr] :
                   r \in {KB_alloc_scratch(kb, name, 1)}})
         ELSE [kb |-> kb, addr |-> kb.const_map[val]] :
         kb \in {kb0}})

\* A scratch_const that loads the constant again each time it is asked for.
KB_scratch_const_Reload(kb0, val, name) ==
    The({IF val \notin DOMAIN kb.const_map
         THEN The({[kb |-> [KB_add(r.kb, "load", <<"const", r.addr, val>>)
                               EXCEPT !.const_map = DictSet(@, val, r.addr)],
                    addr |-> r.addr] :
                   r \in {KB_alloc_scratch(kb, name, 1)}})
         ELSE [kb |-> KB_add(kb, "load", <<"const", kb.const_map[val], val>>),
               addr |-> kb.const_map[val]] :
         kb \in {kb0}})

\* the load of a new constant goes to instrs at once
KB_scratch_const(kb0, val, name) ==
    The({IF val \notin DOMAIN kb.const_map
         THEN The({[kb |-> [KB_add(r.kb, "load", <<"const", r.addr, val>>)
                               EXCEPT !.const_map = DictSet(@, val, r.addr)],
                    addr |-> r.addr] :
                   r \in {KB_alloc_scratch(kb, name, 1)}})
         ELSE [kb |-> kb, addr |-> kb.const_map[val]] :
         kb \in {kb0}})

\* vec = alloc_scratch(f"vc_{val}", VLEN) ; add_bundle(vbroadcast vec <- scalar)
VecOfScalar(sc, val) ==
    The({[kb |-> [KB_add_bundle(r.kb, Bundle1("valu", <<"vbroadcast", r.addr, sc.addr>>))
                     EXCEPT !.vec_const_map = DictSet(@, val, r.addr)],
          addr |-> r.addr] :
         r \in {KB_alloc_scratch(sc.kb, <<"vc", val>>, VLEN)}})

KB_vec_const(kb0, val) ==
    The({IF val \notin DOMAIN kb.vec_const_map
         THEN The({VecOfScalar(sc, val) : sc \in {KB_scratch_const(kb, val, None)}})
         ELSE [kb |-> kb, addr |-> kb.vec_const_map[val]] :
         kb \in {kb0}})

\* self.build(slots, vliw)
KB_build(slots, vliw) == VLIWBuild(slots, vliw)

RECURSIVE Flatten(_)
Flatten(ss) ==
    IF ss = <<>> THEN <<>>
    ELSE Head(ss) \o The({Flatten(rest) : rest \in {Tail(ss)}})

\* [alloc_scratch(f"{prefix}_{k}", length) for k in range(count)]
RECURSIVE AllocList(_, _, _, _, _)
AllocList(kb, prefix, count, length, acc) ==
    IF Len(acc) >= count THEN [kb |-> kb, addr |-> acc]
    ELSE The({AllocList(r.kb, prefix, count, length, nacc) :
                 r \in {KB_alloc_scratch(kb, Append(prefix, Len(acc)), length)},
                 nacc \in {Append(acc, kb.scratch_ptr)}})

\* [scratch_const(v) for v in vals]
RECURSIVE ConstList(_, _, _)
ConstList(kb, vals, acc) ==
    IF Len(acc) >= Len(vals) THEN [kb |-> kb, addr |-> acc]
    ELSE The({The({ConstList(r.kb, vals, nacc) : nacc \in {Append(acc, r.addr)}}) :
                 r \in {KB_scratch_const(kb, vals[Len(acc) + 1], None)}})

\* local = <call that returns [kb, addr]>
Assign(f, local, r0) ==
    The({[kb |-> r.kb, loc |-> DictSet(f.loc, local, r.addr)] : r \in {r0}})

\* ("debug", ("vcompare", addr, keys)), keys (round, item, tag) per lane
Vcompare(addr, round_num, batch_start, tag) ==
    <<"debug", <<"vcompare", addr,
                 [lane \in 1..VLEN |-> <<round_num, batch_start + lane - 1>> \o tag]>>>>

\* Stage ops of the interleaved hash with the two temporaries taken in the
\* other order.
StageOps_TmpsSwapped(hi, batches_info, round_num, m, c) ==
    LET op1 == HASH_STAGES[hi][1]
        op2 == HASH_STAGES[hi][3]
        op3 == HASH_STAGES[hi][4]
        nb == Len(batches_info)
        keys(b) == Vcompare(batches_info[b][1], round_num, batches_info[b][4],
                            <<"hash_stage", hi - 1>>)
    IN IF op1 = "+" /\ op2 = "+" /\ op3 = "<<"
       THEN Flatten([b \in 1..nb |->
               << <<"valu", <<"multiply_add", batches_info[b][1],
                              batches_info[b][1], m, c>>>>,
                  keys(b) >>])
       ELSE Flatten([b \in 1..nb |->
               << <<"valu", <<op1, batches_info[b][3], batches_info[b][1], m>>>>,
                  <<"valu", <<op3, batches_info[b][2], batches_info[b][1], c>>>> >>])
            \o
            Flatten([b \in 1..nb |->
               << <<"valu", <<op2, batches_info[b][1], batches_info[b][3],
                              batches_info[b][2]>>>>,
                  keys(b) >>])

\* Stage ops of the interleaved hash with the op3 op ahead of the op1 op.
StageOps_Op3First(hi, batches_info, round_num, m, c) ==
    LET op1 == HASH_STAGES[hi][1]
        op2 == HASH_STAGES[hi][3]
        op3 == HASH_STAGES[hi][4]
        nb == Len(batches_info)
        keys(b) == Vcompare(batches_info[b][1], round_num, batches_info[b][4],
                            <<"hash_stage", hi - 1>>)
    IN IF op1 = "+" /\ op2 = "+" /\ op3 = "<<"
       THEN Flatten([b \in 1..nb |->
               << <<"valu", <<"multiply_add", batches_info[b][1],
                              batches_info[b][1], m, c>>>>,
                  keys(b) >>])
       ELSE Flatten([b \in 1..nb |->
               << <<"valu", <<op3, batches_info[b][3], batches_info[b][1], c>>>>,
                  <<"valu", <<op1, batches_info[b][2], batches_info[b][1], m>>>> >>])
            \o
            Flatten([b \in 1..nb |->
               << <<"valu", <<op2, batches_info[b][1], batches_info[b][2],
                              batches_info[b][3]>>>>,
                  keys(b) >>])

\* Stage ops that finish a general stage batch by batch: op1, op3 and op2 of
\* one batch before the ops of the next.
StageOps_BatchByBatch(hi, batches_info, round_num, m, c) ==
    LET op1 == HASH_STAGES[hi][1]
        op2 == HASH_STAGES[hi][3]
        op3 == HASH_STAGES[hi][4]
        nb == Len(batches_info)
        keys(b) == Vcompare(batches_info[b][1], round_num, batches_info[b][4],
                            <<"hash_stage", hi - 1>>)
    IN IF op1 = "+" /\ op2 = "+" /\ op3 = "<<"
       THEN Flatten([b \in 1..nb |->
               << <<"valu", <<"multiply_add", batches_info[b][1],
                              batches_info[b][1], m, c>>>>,
                  keys(b) >>])
       ELSE Flatten([b \in 1..nb |->
               << <<"valu", <<op1, batches_info[b][2], batches_info[b][1], m>>>>,
                  <<"valu", <<op3, batches_info[b][3], batches_info[b][1], c>>>>,
                  <<"valu", <<op2, batches_info[b][1], batches_info[b][2],
                              batches_info[b][3]>>>>,
                  keys(b) >>])

\* the ops one hash stage adds for all batches; m and c are the stage's
\* vector constants
StageOps(hi, batches_info, round_num, m, c) ==
    LET op1 == HASH_STAGES[hi][1]
        op2 == HASH_STAGES[hi][3]
        op3 == HASH_STAGES[hi][4]
        nb == Len(batches_info)
        keys(b) == Vcompare(batches_info[b][1], round_num, batches_info[b][4],
                            <<"hash_stage", hi - 1>>)
    IN IF op1 = "+" /\ op2 = "+" /\ op3 = "<<"
       THEN Flatten([b \in 1..nb |->
               << <<"valu", <<"multiply_add", batches_info[b][1],
                              batches_info[b][1], m, c>>>>,
                  keys(b) >>])
       ELSE Flatten([b \in 1..nb |->
               << <<"valu", <<op1, batches_info[b][2], batches_info[b][1], m>>>>,
                  <<"valu", <<op3, batches_info[b][3], batches_info[b][1], c>>>> >>])
            \o
            Flatten([b \in 1..nb |->
               << <<"valu", <<op2, batches_info[b][1], batches_info[b][2],
                              batches_info[b][3]>>>>,
                  keys(b) >>])

\* Stage constants whose multiplier is 2^val3, not 1 + 2^val3.
StageConsts_ShiftOnly(hi) ==
    LET st == HASH_STAGES[hi]
    IN IF st[1] = "+" /\ st[3] = "+" /\ st[4] = "<<"
       THEN <<Pow2(st[5]), st[2]>>
       ELSE <<st[2], st[5]>>

\* the two vector constants of stage hi: (multiplier, val1) where the stage
\* is rewritten to a multiply_add, (val1, val3) otherwise
StageConsts(hi) ==
    LET st == HASH_STAGES[hi]
    IN IF st[1] = "+" /\ st[3] = "+" /\ st[4] = "<<"
       THEN <<1 + Pow2(st[5]), st[2]>>
       ELSE <<st[2], st[5]>>

\* build_vhash_interleaved, from stage hi on; batches_info holds
\* (v_val, v_tmp1, v_tmp2, batch_start) per batch
RECURSIVE VHashFrom(_, _, _, _, _)
VHashFrom(kb, batches_info, round_num, hi, slots) ==
    IF hi > Len(HASH_STAGES) THEN [kb |-> kb, slots |-> slots]
    ELSE The({The({The({VHashFrom(c.kb, batches_info, round_num, hi + 1, ns) :
                        ns \in {slots \o StageOps(hi, batches_info, round_num,
                                                 m.addr, c.addr)}}) :
                   c \in {KB_vec_const(m.kb, StageConsts(hi)[2])}}) :
              m \in {KB_vec_const(kb, StageConsts(hi)[1])}})

build_vhash_interleaved(kb, batches_info, round_num) ==
    VHashFrom(kb, batches_info, round_num, 1, <<>>)

\* the ops build_vhash appends for stage hi; m and c are the stage's vector
\* constants
VHashStage(hi, v_val, v_tmp1, v_tmp2, round_num, batch_start, m, c) ==
    LET op1 == HASH_STAGES[hi][1]
        op2 == HASH_STAGES[hi][3]
        op3 == HASH_STAGES[hi][4]
        keys == Vcompare(v_val, round_num, batch_start, <<"hash_stage", hi - 1>>)
    IN IF op1 = "+" /\ op2 = "+" /\ op3 = "<<"
       THEN << <<"valu", <<"multiply_add", v_val, v_val, m, c>>>>, keys >>
       ELSE << <<"valu", <<op1, v_tmp1, v_val, m>>>>,
               <<"valu", <<op3, v_tmp2, v_val, c>>>>,
               <<"valu", <<op2, v_val, v_tmp1, v_tmp2>>>>,
               keys >>

\* build_vhash, from stage hi on
RECURSIVE VHashOneFrom(_, _, _, _, _, _, _, _)
VHashOneFrom(kb, v_val, v_tmp1, v_tmp2, round_num, batch_start, hi, slots) ==
    IF hi > Len(HASH_STAGES) THEN [kb |-> kb, slots |-> slots]
    ELSE The({The({The({VHashOneFrom(c.kb, v_val, v_tmp1, v_tmp2, round_num,
                                     batch_start, hi + 1, ns) :
                        ns \in {slots \o VHashStage(hi, v_val, v_tmp1, v_tmp2, round_num,
                                                   batch_start, m.addr, c.addr)}}) :
                   c \in {KB_vec_const(m.kb, StageConsts(hi)[2])}}) :
              m \in {KB_vec_const(kb, StageConsts(hi)[1])}})

build_vhash(kb, v_val, v_tmp1, v_tmp2, round_num, batch_start) ==
    VHashOneFrom(kb, v_val, v_tmp1, v_tmp2, round_num, batch_start, 1, <<>>)

\* N_TMP_POOLS, PIPE_DEPTH and ADDR_RING of build_kernel
N_TMP_POOLS == 6
PIPE_DEPTH == 2
ADDR_RING == PIPE_DEPTH + 1

init_vars ==
    <<"rounds", "n_nodes", "batch_size", "forest_height",
      "forest_values_p", "inp_indices_p", "inp_values_p">>

\* for v in init_vars: self.alloc_scratch(v, 1)
RECURSIVE AllocHeader(_, _)
AllocHeader(kb, i) ==
    IF i > Len(init_vars) THEN kb
    ELSE The({AllocHeader(nkb, i + 1) :
                 nkb \in {KB_alloc_scratch(kb, <<init_vars[i]>>, 1).kb}})

\* for i, v in enumerate(init_vars): load const tmp1 <- i ; load scratch[v] <- mem[tmp1]
RECURSIVE LoadHeader(_, _, _)
LoadHeader(kb, tmp1, i) ==
    IF i > Len(init_vars) THEN kb
    ELSE The({LoadHeader(nkb, tmp1, i + 1) :
                 nkb \in {KB_add(KB_add(kb, "load", <<"const", tmp1, i - 1>>),
                                 "load", <<"load", kb.scratch[<<init_vars[i]>>], tmp1>>)}})

\* A prologue that pauses before the header is read.
BuildPrologue_PauseFirst(kb) ==
    The({LoadHeader(AllocHeader(KB_add(t.kb, "flow", <<"pause">>), 1), t.addr, 1) :
         t \in {KB_alloc_scratch(kb, <<"tmp1">>, 1)}})

\* build_kernel up to the pause
BuildPrologue(kb) ==
    The({KB_add(LoadHeader(AllocHeader(t.kb, 1), t.addr, 1), "flow", <<"pause">>) :
         t \in {KB_alloc_scratch(kb, <<"tmp1">>, 1)}})

\* self.add_bundle({"valu": [("vbroadcast", v_n_nodes, self.scratch["n_nodes"])]})
BroadcastNNodes(f0) ==
    The({[f EXCEPT !.kb = KB_add_bundle(@, Bundle1("valu",
                     <<"vbroadcast", f.loc.v_n_nodes, f.kb.scratch[<<"n_nodes">>]>>))] :
         f \in {f0}})

\* the vectors, the constants and the scalars allocated before the init
\* stream, one assignment of build_kernel after the other
BuildAllocs(kb0, batch_size) ==
    LET nb == batch_size \div VLEN
        f0 == [kb |-> kb0, loc |-> [num_batches |-> nb]]
        f1 == The({Assign(f, "v_idx", AllocList(f.kb, <<"v_idx">>, nb, VLEN, <<>>)) : f \in {f0}})
        f2 == The({Assign(f, "v_val", AllocList(f.kb, <<"v_val">>, nb, VLEN, <<>>)) : f \in {f1}})
        f3 == The({Assign(f, "v_node_val",
                          AllocList(f.kb, <<"v_node_val">>, nb, VLEN, <<>>)) : f \in {f2}})
        f4 == The({Assign(f, "v_tmp1",
                          AllocList(f.kb, <<"v_tmp1">>, N_TMP_POOLS, VLEN, <<>>)) : f \in {f3}})
        f5 == The({Assign(f, "v_tmp2",
                          AllocList(f.kb, <<"v_tmp2">>, N_TMP_POOLS, VLEN, <<>>)) : f \in {f4}})
        f6 == The({Assign(f, "v_zero", KB_vec_const(f.kb, 0)) : f \in {f5}})
        f7 == The({Assign(f, "v_one", KB_vec_const(f.kb, 1)) : f \in {f6}})
        f8 == The({Assign(f, "v_two", KB_vec_const(f.kb, 2)) : f \in {f7}})
        f9 == The({Assign(f, "v_n_nodes",
                          KB_alloc_scratch(f.kb, <<"v_n_nodes">>, VLEN)) : f \in {f8}})
        f10 == The({Assign(f, "tmp_addr",
                           KB_alloc_scratch(f.kb, <<"tmp_addr">>, 1)) :
                    f \in {BroadcastNNodes(f9)}})
    IN The({Assign(f, "batch_offsets",
                   ConstList(f.kb, [b \in 1..nb |-> (b - 1) * VLEN], <<>>)) : f \in {f10}})

\* init_ops: load every batch's indices and values
InitOps(kb, loc) ==
    Flatten([b \in 1..loc.num_batches |->
       << <<"alu", <<"+", loc.tmp_addr, kb.scratch[<<"inp_indices_p">>], loc.batch_offsets[b]>>>>,
          <<"load", <<"vload", loc.v_idx[b], loc.tmp_addr>>>>,
          Vcompare(loc.v_idx[b], 0, (b - 1) * VLEN, <<"idx">>),
          <<"alu", <<"+", loc.tmp_addr, kb.scratch[<<"inp_values_p">>], loc.batch_offsets[b]>>>>,
          <<"load", <<"vload", loc.v_val[b], loc.tmp_addr>>>>,
          Vcompare(loc.v_val[b], 0, (b - 1) * VLEN, <<"val">>) >>])

\* tree_0 .. idx_addr: the scalars allocated after the init stream.  The
\* ring idx_addr[s][lane] is kept flat, at position s * VLEN + lane.
BuildRing(f0) ==
    LET f1 == The({Assign(f, "tree_0", KB_alloc_scratch(f.kb, <<"tree_0">>, 1)) : f \in {f0}})
        f2 == The({Assign(f, "tree_1", KB_alloc_scratch(f.kb, <<"tree_1">>, 1)) : f \in {f1}})
        f3 == The({Assign(f, "tree_2", KB_alloc_scratch(f.kb, <<"tree_2">>, 1)) : f \in {f2}})
        f4 == The({Assign(f, "v_tmp3", KB_alloc_scratch(f.kb, <<"v_tmp3">>, VLEN)) : f \in {f3}})
    IN The({Assign(f, "idx_addr",
                   AllocList(f.kb, <<"idx_addr">>, ADDR_RING * VLEN, 1, <<>>)) : f \in {f4}})

\* An index update that leaves out the wrap to the root.
IndexUpdate_NoWrap(loc, round_num, b) ==
    LET batch_start == (b - 1) * VLEN
        tp == loc.v_tmp1[((b - 1) % N_TMP_POOLS) + 1]
    IN << Vcompare(loc.v_val[b], round_num, batch_start, <<"hashed_val">>),
          <<"valu", <<"&", tp, loc.v_val[b], loc.v_one>>>>,
          <<"valu", <<"+", tp, tp, loc.v_one>>>>,
          <<"valu", <<"multiply_add", loc.v_idx[b], loc.v_idx[b], loc.v_two, tp>>>>,
          Vcompare(loc.v_idx[b], round_num, batch_start, <<"next_idx">>),
          Vcompare(loc.v_idx[b], round_num, batch_start, <<"wrapped_idx">>) >>

\* the index update of one batch, the same in every kind of round:
\* idx = 2 * idx + ((val & 1) + 1), then 0 where idx >= n_nodes
IndexUpdate(loc, round_num, b) ==
    LET batch_start == (b - 1) * VLEN
        tp == loc.v_tmp1[((b - 1) % N_TMP_POOLS) + 1]
    IN << Vcompare(loc.v_val[b], round_num, batch_start, <<"hashed_val">>),
          <<"valu", <<"&", tp, loc.v_val[b], loc.v_one>>>>,
          <<"valu", <<"+", tp, tp, loc.v_one>>>>,
          <<"valu", <<"multiply_add", loc.v_idx[b], loc.v_idx[b], loc.v_two, tp>>>>,
          Vcompare(loc.v_idx[b], round_num, batch_start, <<"next_idx">>),
          <<"valu", <<"<", tp, loc.v_idx[b], loc.v_n_nodes>>>>,
          <<"flow", <<"vselect", loc.v_idx[b], tp, loc.v_idx[b], loc.v_zero>>>>,
          Vcompare(loc.v_idx[b], round_num, batch_start, <<"wrapped_idx">>) >>

BatchesInfo(loc) ==
    [b \in 1..loc.num_batches |->
        <<loc.v_val[b], loc.v_node_val[b], loc.v_val[b], (b - 1) * VLEN>>]

\* hash and index update, the tail of every round
RoundTail(kb, loc, round_num, head) ==
    The({[kb |-> h.kb,
          slots |-> head \o h.slots \o
                    Flatten([b \in 1..loc.num_batches |-> IndexUpdate(loc, round_num, b)])] :
         h \in {build_vhash_interleaved(kb, BatchesInfo(loc), round_num)}})

\* rounds 0 and 11: every item is taken to stand at the root
BroadcastHead(c0, loc, round_num) ==
          << <<"alu", <<"+", loc.tmp_addr, c0.kb.scratch[<<"forest_values_p">>], c0.addr>>>>,
             <<"load", <<"load", loc.tree_0, loc.tmp_addr>>>> >> \o
          Flatten([b \in 1..loc.num_batches |->
             << <<"valu", <<"vbroadcast", loc.v_node_val[b], loc.tree_0>>>>,
                Vcompare(loc.v_node_val[b], round_num, (b - 1) * VLEN, <<"node_val">>),
                <<"valu", <<"^", loc.v_val[b], loc.v_val[b], loc.v_node_val[b]>>>> >>])

BroadcastRound(kb, loc, round_num) ==
    The({RoundTail(c0.kb, loc, round_num, BroadcastHead(c0, loc, round_num)) :
         c0 \in {KB_scratch_const(kb, 0, None)}})

\* rounds 1 and 12: every item is taken to stand at node 1 or node 2
DualSelectHead(c1, c2, loc, round_num) ==
    LET fvp == c2.kb.scratch[<<"forest_values_p">>]
    IN
          << <<"alu", <<"+", loc.tmp_addr, fvp, c1.addr>>>>,
             <<"load", <<"load", loc.tree_1, loc.tmp_addr>>>>,
             <<"alu", <<"+", loc.tmp_addr, fvp, c2.addr>>>>,
             <<"load", <<"load", loc.tree_2, loc.tmp_addr>>>> >> \o
          Flatten([b \in 1..loc.num_batches |->
             LET tp == loc.v_tmp1[((b - 1) % N_TMP_POOLS) + 1]
             IN << <<"valu", <<"&", tp, loc.v_idx[b], loc.v_one>>>>,
                   <<"valu", <<"vbroadcast", loc.v_tmp3, loc.tree_1>>>>,
                   <<"valu", <<"vbroadcast", loc.v_node_val[b], loc.tree_2>>>>,
                   <<"flow", <<"vselect", loc.v_node_val[b], tp, loc.v_tmp3,
                               loc.v_node_val[b]>>>>,
                   Vcompare(loc.v_node_val[b], round_num, (b - 1) * VLEN, <<"node_val">>),
                   <<"valu", <<"^", loc.v_val[b], loc.v_val[b], loc.v_node_val[b]>>>> >>])

DualSelectRound(kb, loc, round_num) ==
    The({The({RoundTail(c2.kb, loc, round_num, DualSelectHead(c1, c2, loc, round_num)) :
              c2 \in {KB_scratch_const(c1.kb, 2, None)}}) :
         c1 \in {KB_scratch_const(kb, 1, None)}})

\* A pipeline step that loads batch `step` before forming its addresses.
GatherStep_LoadBeforeAddress(kb, loc, round_num, step) ==
    LET addr_batch == step
        load_batch == step
        compute_batch == step - PIPE_DEPTH
        ring(b) == [lane \in 1..VLEN |-> loc.idx_addr[(b % ADDR_RING) * VLEN + lane]]
        fvp == kb.scratch[<<"forest_values_p">>]
    IN (IF 0 <= load_batch /\ load_batch < loc.num_batches
        THEN [lane \in 1..VLEN |->
                <<"load", <<"load", loc.v_node_val[load_batch + 1] + lane - 1,
                            ring(load_batch)[lane]>>>>]
             \o << Vcompare(loc.v_node_val[load_batch + 1], round_num,
                            load_batch * VLEN, <<"node_val">>) >>
        ELSE <<>>)
       \o
       (IF addr_batch < loc.num_batches
        THEN [lane \in 1..VLEN |->
                <<"alu", <<"+", ring(addr_batch)[lane], fvp,
                           loc.v_idx[addr_batch + 1] + lane - 1>>>>]
        ELSE <<>>)
       \o
       (IF 0 <= compute_batch /\ compute_batch < loc.num_batches
        THEN << <<"valu", <<"^", loc.v_val[compute_batch + 1], loc.v_val[compute_batch + 1],
                            loc.v_node_val[compute_batch + 1]>>>> >>
        ELSE <<>>)

\* one step of the gather pipeline: addresses of batch `step`, loads of
\* batch step-1, xor of batch step-PIPE_DEPTH (batches counted from 0)
GatherStep(kb, loc, round_num, step) ==
    LET addr_batch == step
        load_batch == step - 1
        compute_batch == step - PIPE_DEPTH
        ring(b) == [lane \in 1..VLEN |-> loc.idx_addr[(b % ADDR_RING) * VLEN + lane]]
        fvp == kb.scratch[<<"forest_values_p">>]
    IN (IF addr_batch < loc.num_batches
        THEN [lane \in 1..VLEN |->
                <<"alu", <<"+", ring(addr_batch)[lane], fvp,
                           loc.v_idx[addr_batch + 1] + lane - 1>>>>]
        ELSE <<>>)
       \o
       (IF 0 <= load_batch /\ load_batch < loc.num_batches
        THEN [lane \in 1..VLEN |->
                <<"load", <<"load", loc.v_node_val[load_batch + 1] + lane - 1,
                            ring(load_batch)[lane]>>>>]
             \o << Vcompare(loc.v_node_val[load_batch + 1], round_num,
                            load_batch * VLEN, <<"node_val">>) >>
        ELSE <<>>)
       \o
       (IF 0 <= compute_batch /\ compute_batch < loc.num_batches
        THEN << <<"valu", <<"^", loc.v_val[compute_batch + 1], loc.v_val[compute_batch + 1],
                            loc.v_node_val[compute_batch + 1]>>>> >>
        ELSE <<>>)

\* all other rounds: one scalar load per lane from forest_values_p + idx
GatherRound(kb, loc, round_num) ==
    LET total_steps == loc.num_batches + PIPE_DEPTH
    IN RoundTail(kb, loc, round_num,
                 Flatten([st \in 1..total_steps |-> GatherStep(kb, loc, round_num, st - 1)]))

\* round_ops of one iteration of `for round_num in range(rounds)`
RoundOps(kb, loc, round_num) ==
    IF round_num \in {0, 11} THEN BroadcastRound(kb, loc, round_num)
    ELSE IF round_num \in {1, 12} THEN DualSelectRound(kb, loc, round_num)
    ELSE GatherRound(kb, loc, round_num)

\* a finalisation that forms the address once per batch and stores both
\* vectors of the batch through it
FinalOps_OneAddress(kb, loc) ==
    Flatten([b \in 1..loc.num_batches |->
       << <<"alu", <<"+", loc.tmp_addr, kb.scratch[<<"inp_indices_p">>], loc.batch_offsets[b]>>>>,
          <<"store", <<"vstore", loc.tmp_addr, loc.v_idx[b]>>>>,
          <<"store", <<"vstore", loc.tmp_addr, loc.v_val[b]>>>> >>])

\* final_ops: store every batch's indices and values
FinalOps(kb, loc) ==
    Flatten([b \in 1..loc.num_batches |->
       << <<"alu", <<"+", loc.tmp_addr, kb.scratch[<<"inp_indices_p">>], loc.batch_offsets[b]>>>>,
          <<"store", <<"vstore", loc.tmp_addr, loc.v_idx[b]>>>>,
          <<"alu", <<"+", loc.tmp_addr, kb.scratch[<<"inp_values_p">>], loc.batch_offsets[b]>>>>,
          <<"store", <<"vstore", loc.tmp_addr, loc.v_val[b]>>>> >>])

\* An extend that packs the first bundle of the new stream into the last
\* bundle already emitted.
Extend_Merged(kb, ops) ==
    The({IF kb.instrs = <<>> \/ built = <<>> THEN [kb EXCEPT !.instrs = @ \o built]
         ELSE [kb EXCEPT !.instrs =
                  SubSeq(@, 1, Len(@) - 1)
                  \o <<[e \in Engines |-> @[Len(@)][e] \o built[1][e]]>>
                  \o Tail(built)] :
         built \in {KB_build(ops, TRUE)}})

\* self.instrs.extend(self.build(ops, vliw=True))
Extend(kb, ops) == [kb EXCEPT !.instrs = @ \o KB_build(ops, TRUE)]

\* build_kernel not called, the machine not made
NoKernel ==
    [forest_height |-> 0, n_nodes |-> 0, batch_size |-> 0, rounds |-> 0,
     kb |-> KernelBuilder, loc |-> <<>>, round_num |-> 0]
MachineOff ==
    [mem |-> <<>>, image |-> <<>>, scratch |-> <<>>, pc |-> 0, state |-> "off",
     entry |-> <<>>]

\* ------------------------------------------------- the scheduler on its own
\* problem.SLOT_LIMITS of the machine; debug is never counted by the scheduler.
MachineSlotLimits ==
    [alu |-> 12, valu |-> 6, load |-> 2, store |-> 2, flow |-> 1, debug |-> 64]

\* The limits of the scheduler unit cases: {load: 1, alu: 2}, one slot elsewhere.
UnitSlotLimits ==
    [alu |-> 2, valu |-> 1, load |-> 1, store |-> 1, flow |-> 1, debug |-> 64]

\* Scratch words of the op alphabet: a mask vector, a data vector, a scalar.
AddrM == 0 * VLEN
AddrA == VLEN
AddrZ == 2 * VLEN

OpAlphabet ==
    { <<"alu", <<"+", AddrM, AddrZ, AddrZ>>>>,
      <<"alu", <<"+", AddrM + 1, AddrZ, AddrZ>>>>,
      <<"alu", <<"+", AddrZ, AddrM, AddrM + 1>>>>,
      <<"load", <<"const", AddrZ, 1>>>>,
      <<"load", <<"const", AddrM, 1>>>>,
      <<"load", <<"load", AddrM + 1, AddrZ>>>>,
      <<"load", <<"vload", AddrA, AddrZ>>>>,
      <<"valu", <<"+", AddrA, AddrM, AddrM>>>>,
      <<"valu", <<"vbroadcast", AddrM, AddrZ>>>>,
      <<"flow", <<"vselect", AddrA, AddrM, AddrA, AddrA>>>>,
      <<"flow", <<"add_imm", AddrZ, AddrZ, 1>>>>,
      <<"store", <<"vstore", AddrZ, AddrA>>>>,
      <<"debug", <<"vcompare", AddrM, 0>>>> }

Streams == UNION {[1..n -> OpAlphabet] : n \in 1..MaxOps}

SchedConfigs ==
    { <<MachineSlotLimits, "scarcity">>,
      <<MachineSlotLimits, "fixed">>,
      <<UnitSlotLimits, "scarcity">> }

SchedInit ==
    /\ \E cfg \in SchedConfigs : SLOT_LIMITS = cfg[1] /\ weights = cfg[2]
    /\ \E slots \in Streams : sched = SchedStart(slots)
    /\ pc = "cycle"
    /\ alloc = ScratchAllocator(VLEN, SCRATCH_SIZE)
    /\ calls = <<>>
    /\ kern = NoKernel /\ streams = <<>> /\ mach = MachineOff

\* one pass of `while ready:`
SchedCycle ==
    /\ pc = "cycle"
    /\ sched.ready # <<>>
    /\ sched' = Cycle(sched)
    /\ UNCHANGED <<SLOT_LIMITS, weights, pc, allocVars, kernVars>>

\* `return instrs`
SchedReturn ==
    /\ pc = "cycle"
    /\ sched.ready = <<>>
    /\ pc' = "done"
    /\ UNCHANGED <<schedVars, allocVars, kernVars>>

SchedNext == SchedCycle \/ SchedReturn

SchedSpec == SchedInit /\ [][SchedNext]_vars

\* ------------------------------- the scheduler, the ready list in any order
\* A second run of build() on the same input, in which the ready list comes
\* to the head of each cycle in an order other than the one the lists of
\* this implementation give it (the deferred ops, then the released ones in
\* the order of the two loops of the ready update).
Orderings(seq) ==
    {p \in [1..Len(seq) -> SeqRange(seq)] : SeqRange(p) = SeqRange(seq)}

ReadyInAnyOrder ==
    /\ pc = "cycle"
    /\ \E order \in Orderings(sched.ready) :
          /\ order # sched.ready
          /\ sched' = [sched EXCEPT !.ready = order]
    /\ UNCHANGED <<SLOT_LIMITS, weights, pc, allocVars, kernVars>>

OrderNext == ReadyInAnyOrder \/ SchedCycle \/ SchedReturn

OrderSpec == SchedInit /\ [][OrderNext]_vars

\* ------------------------------------------------ build() without packing
\* VLIWScheduler.build(slots, vliw=False) on the streams of the op alphabet.
TrivialInit ==
    /\ SchedInit
    /\ sched.instrs = <<>>

\* the call and its return value
TrivialCall ==
    /\ pc = "cycle"
    /\ sched' = [sched EXCEPT !.instrs = VLIWBuild(sched.slots, FALSE)]
    /\ pc' = "done"
    /\ UNCHANGED <<SLOT_LIMITS, weights, allocVars, kernVars>>

TrivialNext == TrivialCall

TrivialSpec == TrivialInit /\ [][TrivialNext]_vars

\* ------------------------------ the scheduler, streams with other opcodes
\* Ops whose opcode has no branch of its own in get_writes and get_reads:
\* both functions run past their engine branch to the final `return set()`.
OtherOps ==
    { <<"load", <<"bogus", AddrZ, AddrM>>>>,
      <<"store", <<"bogus", AddrZ, AddrA>>>>,
      <<"flow", <<"bogus", AddrM, AddrZ>>>> }

\* The opcodes the extraction functions name, engine by engine; the alu and
\* valu branches take any opcode.
HasBranch(engine, slot) ==
    CASE engine \in {"debug", "alu", "valu"} -> TRUE
      [] engine = "load" -> slot[1] \in {"const", "load", "vload", "load_offset"}
      [] engine = "store" -> slot[1] \in {"store", "vstore"}
      [] engine = "flow" ->
            slot[1] \in {"select", "vselect", "add_imm", "cond_jump", "cond_jump_rel"}
      [] OTHER -> FALSE

OtherStreams ==
    {slots \in UNION {[1..n -> OpAlphabet \cup OtherOps] : n \in 1..MaxOps} :
        \E k \in 1..Len(slots) : slots[k] \in OtherOps}

OtherInit ==
    /\ \E cfg \in SchedConfigs : SLOT_LIMITS = cfg[1] /\ weights = cfg[2]
    /\ \E slots \in OtherStreams : sched = SchedStart(slots)
    /\ pc = "cycle"
    /\ alloc = ScratchAllocator(VLEN, SCRATCH_SIZE)
    /\ calls = <<>>
    /\ kern = NoKernel /\ streams = <<>> /\ mach = MachineOff

OtherNext == SchedCycle \/ SchedReturn

OtherSpec == OtherInit /\ [][OtherNext]_vars

\* ------------------------------- the scheduler, an engine with no slots
\* build() under SLOT_LIMITS in which one engine has the limit 0, from its
\* entry: the weights of kernel_scheduler.py divide by the limit, those of
\* KernelBuilder.build do not.
ZeroEngines == Engines \ {"debug"}

\* the locals of build() before any of them is computed
EntryState(slots) ==
    [slots |-> slots, op_reads |-> <<>>, op_writes |-> <<>>, pred |-> <<>>,
     war_pred |-> <<>>, height |-> <<>>, ready |-> <<>>, scheduled |-> {},
     instrs |-> <<>>, cycles |-> <<>>]

\* `(base_limit + limit - 1) // limit` with limit = 0: ZeroDivisionError, for
\* load_weight whatever the stream holds, in get_latency_weight for the
\* engines of the ops of the stream.
ZeroDivision(slots) ==
    /\ weights = "scarcity"
    /\ \/ load_limit = 0
       \/ \E k \in 1..Len(slots) :
             /\ slots[k][1] \notin {"debug", "load"}
             /\ Limit(slots[k][1]) = 0

ZeroInit ==
    /\ \E e \in ZeroEngines : SLOT_LIMITS = [MachineSlotLimits EXCEPT ![e] = 0]
    /\ weights \in {"scarcity", "fixed"}
    /\ \E slots \in Streams : sched = EntryState(slots)
    /\ pc = "entry"
    /\ alloc = ScratchAllocator(VLEN, SCRATCH_SIZE)
    /\ calls = <<>>
    /\ kern = NoKernel /\ streams = <<>> /\ mach = MachineOff

\* build() from its entry to the head of `while ready:`
ZeroEntry ==
    /\ pc = "entry"
    /\ IF ZeroDivision(sched.slots)
       THEN pc' = "raised" /\ sched' = sched
       ELSE pc' = "cycle" /\ sched' = SchedStart(sched.slots)
    /\ UNCHANGED <<SLOT_LIMITS, weights, allocVars, kernVars>>

ZeroNext == ZeroEntry \/ SchedCycle \/ SchedReturn

\* The interpreter keeps running the loop it is in.
ZeroSpec == ZeroInit /\ [][ZeroNext]_vars /\ WF_vars(ZeroNext)

\* ------------------------------------------------ the allocator on its own
\* A client makes up to MaxCalls calls on a fresh allocator.  A call that
\* raises "Out of scratch space" is fatal: it returns nothing and no call
\* follows it.
ConstVals == 0..MaxConstVal
AllocNames == {None, <<"tmp">>}
AllocLengths == {1, VLEN}
\* arena sizes small enough for the calls to run out of space
AllocSizes == {VLEN + 2, 2 * VLEN + 3, SCRATCH_SIZE}

AllocInit ==
    /\ \E size \in AllocSizes : alloc = ScratchAllocator(VLEN, size)
    /\ calls = <<>>
    /\ pc = "calls"
    /\ SLOT_LIMITS = MachineSlotLimits
    /\ weights = "scarcity"
    /\ sched = SchedStart(<<>>)
    /\ kern = NoKernel /\ streams = <<>> /\ mach = MachineOff

\* what a call leaves behind: the object, the record of the call
Called(fn, val, r) ==
    /\ alloc' = r.alloc
    /\ calls' = Append(calls, [fn |-> fn, val |-> val, raised |-> r.raised,
                               addr |-> r.addr, instrs |-> r.instrs,
                               ptr_before |-> alloc.scratch_ptr])
    /\ pc' = IF r.raised THEN "raised" ELSE pc
    /\ UNCHANGED <<schedVars, kernVars>>

CallAllocScratch ==
    /\ pc = "calls" /\ Len(calls) < MaxCalls
    /\ \E name \in AllocNames : \E length \in AllocLengths :
          Called("alloc_scratch", length, alloc_scratch(alloc, name, length))

CallScratchConst ==
    /\ pc = "calls" /\ Len(calls) < MaxCalls
    /\ \E val \in ConstVals : \E name \in AllocNames :
          Called("scratch_const", val, scratch_const(alloc, val, name))

CallVecConst ==
    /\ pc = "calls" /\ Len(calls) < MaxCalls
    /\ \E val \in ConstVals :
          Called("vec_const", val, vec_const(alloc, val))

AllocNext == CallAllocScratch \/ CallScratchConst \/ CallVecConst

AllocSpec == AllocInit /\ [][AllocNext]_vars

\* ------------------------------------------------- the kernel, built and run
\* do_kernel_test: build_kernel on a fresh KernelBuilder, then the machine
\* runs the emitted bundles on a memory image, with a second run() after
\* the pause.
Forest(seed, n_nodes) == [i \in 1..n_nodes |-> (37 * seed + 101 * i + 13) % WordMod]
Values(seed, batch_size) == [j \in 1..batch_size |-> (59 * seed + 83 * j + 7) % WordMod]

KernelInit ==
    /\ SLOT_LIMITS = MachineSlotLimits
    /\ weights \in {"fixed", "scarcity"}
    /\ sched = SchedStart(<<>>)
    /\ alloc = ScratchAllocator(VLEN, SCRATCH_SIZE)
    /\ calls = <<>>
    /\ \E forest_height \in 0..MaxHeight : \E rounds \in 1..MaxRounds :
       \E num_batches \in 1..MaxBatches :
          kern = [forest_height |-> forest_height,
                  n_nodes |-> NNodes(forest_height),
                  batch_size |-> num_batches * VLEN,
                  rounds |-> rounds,
                  kb |-> KernelBuilder, loc |-> <<>>, round_num |-> 0]
    /\ streams = <<>>
    /\ mach = MachineOff
    /\ pc = "build"

\* a stream as handed to self.build, with where its bundles went
Handed(kb_before, kb_after, ops) ==
    Append(streams, [first |-> Len(kb_before.instrs) + 1,
                     count |-> Len(kb_after.instrs) - Len(kb_before.instrs),
                     ops |-> ops])

\* build_kernel up to the round loop
BuildKernelInit ==
    /\ pc = "build"
    /\ \E a \in {BuildAllocs(BuildPrologue(kern.kb), kern.batch_size)} :
       \E ops \in {InitOps(a.kb, a.loc)} :
       \E kb2 \in {Extend(a.kb, ops)} :
       \E r \in {BuildRing([kb |-> kb2, loc |-> a.loc])} :
          /\ kern' = [kern EXCEPT !.kb = r.kb, !.loc = r.loc]
          /\ streams' = Handed(a.kb, kb2, ops)
          /\ pc' = IF r.kb.raised THEN "raised" ELSE "rounds"
    /\ UNCHANGED <<schedVars, allocVars, mach>>

\* a round that ends by storing every batch's indices and values back to
\* memory, as a kernel without the scratch-resident state would
BuildKernelRound_StoreBack ==
    /\ pc = "rounds"
    /\ kern.round_num < kern.rounds
    /\ \E r \in {RoundOps(kern.kb, kern.loc, kern.round_num)} :
       \E ops \in {r.slots \o FinalOps(r.kb, kern.loc)} :
       \E kb2 \in {Extend(r.kb, ops)} :
          /\ kern' = [kern EXCEPT !.kb = kb2, !.round_num = @ + 1]
          /\ streams' = Handed(r.kb, kb2, ops)
          /\ pc' = IF kb2.raised THEN "raised" ELSE "rounds"
    /\ UNCHANGED <<schedVars, allocVars, mach>>

\* one iteration of the round loop
BuildKernelRound ==
    /\ pc = "rounds"
    /\ kern.round_num < kern.rounds
    /\ \E r \in {RoundOps(kern.kb, kern.loc, kern.round_num)} :
       \E kb2 \in {Extend(r.kb, r.slots)} :
          /\ kern' = [kern EXCEPT !.kb = kb2, !.round_num = @ + 1]
          /\ streams' = Handed(r.kb, kb2, r.slots)
          /\ pc' = IF kb2.raised THEN "raised" ELSE "rounds"
    /\ UNCHANGED <<schedVars, allocVars, mach>>

\* build_kernel after the round loop
BuildKernelFinal ==
    /\ pc = "rounds"
    /\ kern.round_num = kern.rounds
    /\ \E ops \in {FinalOps(kern.kb, kern.loc)} :
       \E kb2 \in {Extend(kern.kb, ops)} :
          /\ kern' = [kern EXCEPT !.kb = kb2]
          /\ streams' = Handed(kern.kb, kb2, ops)
    /\ pc' = "built"
    /\ UNCHANGED <<schedVars, allocVars, mach>>

\* Machine(mem, kb.instrs, ...) and the first machine.run()
MachineLoad ==
    /\ pc = "built"
    /\ \E seed \in 1..DataSeeds :
       \E image \in {build_mem_image(kern.forest_height, kern.rounds,
                                       Forest(seed, kern.n_nodes),
                                       [j \in 1..kern.batch_size |-> 0],
                                       Values(seed, kern.batch_size))} :
             mach' = [mem |-> image, image |-> image,
                      scratch |-> [a \in 0..(kern.kb.scratch_ptr - 1) |-> 0],
                      pc |-> 1, state |-> "running", entry |-> <<>>]
    /\ pc' = "run"
    /\ UNCHANGED <<schedVars, allocVars, kern, streams>>

\* one bundle; entry remembers the state a stream's bundles began with
MachineCycle ==
    /\ pc = "run"
    /\ mach.state = "running"
    /\ mach.pc <= Len(kern.kb.instrs)
    /\ mach' = [MachineStep(mach, kern.kb.instrs[mach.pc]) EXCEPT
                  !.entry = IF \E k \in 1..Len(streams) : streams[k].first = mach.pc
                            THEN [scratch |-> mach.scratch, mem |-> mach.mem]
                            ELSE @]
    /\ UNCHANGED <<schedVars, allocVars, kern, streams, pc>>

\* the next machine.run() after a pause
MachineResume ==
    /\ pc = "run"
    /\ mach.state = "paused"
    /\ mach' = [mach EXCEPT !.state = "running"]
    /\ UNCHANGED <<schedVars, allocVars, kern, streams, pc>>

\* the program has run off its end
MachineStop ==
    /\ pc = "run"
    /\ mach.state = "running"
    /\ mach.pc > Len(kern.kb.instrs)
    /\ mach' = [mach EXCEPT !.state = "stopped"]
    /\ pc' = "ran"
    /\ UNCHANGED <<schedVars, allocVars, kern, streams>>

KernelNext ==
    \/ BuildKernelInit \/ BuildKernelRound \/ BuildKernelFinal
    \/ MachineLoad \/ MachineCycle \/ MachineResume \/ MachineStop

KernelSpec == KernelInit /\ [][KernelNext]_vars

\* ------------------------------------------ build_kernel on any batch_size
\* build_kernel called with a batch_size that need not be a multiple of VLEN.
AnyBatchInit ==
    /\ SLOT_LIMITS = MachineSlotLimits
    /\ weights \in {"fixed", "scarcity"}
    /\ sched = SchedStart(<<>>)
    /\ alloc = ScratchAllocator(VLEN, SCRATCH_SIZE)
    /\ calls = <<>>
    /\ \E forest_height \in 0..MaxHeight : \E rounds \in 1..MaxRounds :
       \E batch_size \in 1..(MaxBatches * VLEN) :
          kern = [forest_height |-> forest_height,
                  n_nodes |-> NNodes(forest_height),
                  batch_size |-> batch_size,
                  rounds |-> rounds,
                  kb |-> KernelBuilder, loc |-> <<>>, round_num |-> 0]
    /\ streams = <<>>
    /\ mach = MachineOff
    /\ pc = "build"

AnyBatchNext == BuildKernelInit \/ BuildKernelRound \/ BuildKernelFinal

AnyBatchSpec == AnyBatchInit /\ [][AnyBatchNext]_vars

\* ------------------------------------------------ the hash on its own
\* build_vhash_interleaved for one batch, and the machine running the ops it
\* returns one at a time on a vector of words.  The batch is
\* (v_val, v_tmp1, v_tmp2, batch_start): in the layout of build_kernel v_tmp1
\* is the node-value vector and v_tmp2 is v_val itself; in the other all
\* three are vectors of their own.
HashLayouts == {"kernel", "separate"}

\* the builder after the three allocations and the call of Build, with the
\* ops Build returned
HashFrame(Build(_, _, _), layout) ==
    The({The({The({The({[kb |-> r.kb, slots |-> r.slots,
                         loc |-> [layout |-> layout, v_val |-> a1.addr,
                                  v_tmp1 |-> a2.addr, v_tmp2 |-> a3.addr]] :
                        r \in {Build(a3.kb, << <<a1.addr, a2.addr, a3.addr, 0>> >>, 0)}}) :
                   a3 \in {IF layout = "separate"
                           THEN KB_alloc_scratch(a2.kb, <<"v_tmp2", 0>>, VLEN)
                           ELSE [kb |-> a2.kb, addr |-> a1.addr]}}) :
              a2 \in {KB_alloc_scratch(a1.kb, <<"v_node_val", 0>>, VLEN)}}) :
         a1 \in {KB_alloc_scratch(KernelBuilder, <<"v_val", 0>>, VLEN)}})

\* the machine after the constant-init bundles of the builder have run, with
\* the lanes of v_val set to vec
HashLoaded(f, vec) ==
    The({[m EXCEPT !.scratch = [a \in DOMAIN @ |->
                                  IF a \in VRange(f.loc.v_val)
                                  THEN vec[a - f.loc.v_val + 1] ELSE @[a]],
                   !.pc = 1] :
         m \in {ForRange(LAMBDA t, j : MachineStep(t, f.kb.instrs[j]),
                         [mem |-> <<>>, image |-> <<>>,
                          scratch |-> [a \in 0..(f.kb.scratch_ptr - 1) |-> 0],
                          pc |-> 1, state |-> "running", entry |-> <<>>],
                         1, Len(f.kb.instrs))}})

\* the lanes of the input vector: any word in lane 0, words spread from it
\* in the others
HashInput(v) == [lane \in 1..VLEN |-> (v + 89 * (lane - 1)) % WordMod]

HashInit ==
    /\ SLOT_LIMITS = MachineSlotLimits
    /\ weights = "fixed"
    /\ sched = SchedStart(<<>>)
    /\ alloc = ScratchAllocator(VLEN, SCRATCH_SIZE)
    /\ calls = <<>>
    /\ \E v \in 0..(WordMod - 1) : \E layout \in HashLayouts :
       \E f \in {HashFrame(build_vhash_interleaved, layout)} :
       \E m \in {HashLoaded(f, HashInput(v))} :
          /\ kern = [NoKernel EXCEPT !.kb = f.kb, !.loc = f.loc]
          /\ streams = <<[first |-> 1, count |-> 0, ops |-> f.slots]>>
          /\ mach = [m EXCEPT !.entry = [scratch |-> m.scratch, mem |-> m.mem]]
    /\ pc = "hash"

\* the next op of the hash
HashOp ==
    /\ pc = "hash"
    /\ mach.pc <= Len(streams[1].ops)
    /\ mach' = [SequentialStep(mach, streams[1].ops[mach.pc]) EXCEPT !.pc = @ + 1]
    /\ UNCHANGED <<schedVars, allocVars, kern, streams, pc>>

\* the last op has run
HashReturn ==
    /\ pc = "hash"
    /\ mach.pc > Len(streams[1].ops)
    /\ pc' = "hashed"
    /\ UNCHANGED <<schedVars, allocVars, kernVars>>

HashNext == HashOp \/ HashReturn

HashSpec == HashInit /\ [][HashNext]_vars

\* --------------------------------------------- the two hash emitters
\* build_vhash and build_vhash_interleaved called on one builder for the
\* same single batch, one after the other in either order; the builder has
\* made none, or one, of the hash constants before.
VecAddrs == {0, VLEN, 2 * VLEN}

EmitInit ==
    /\ SLOT_LIMITS = MachineSlotLimits /\ weights = "fixed"
    /\ sched = SchedStart(<<>>)
    /\ alloc = ScratchAllocator(VLEN, SCRATCH_SIZE)
    /\ calls = <<>>
    /\ mach = MachineOff
    /\ streams = <<>>
    /\ \E v_val, v_tmp1, v_tmp2 \in VecAddrs :
       \E round_num \in 0..(MaxRounds - 1) : \E b \in 0..(MaxBatches - 1) :
       \E made \in 0..1 :
       \E kb0 \in {[KernelBuilder EXCEPT !.scratch_ptr = 3 * VLEN]} :
          kern = [NoKernel EXCEPT
                    !.kb = IF made = 0 THEN kb0
                           ELSE KB_vec_const(kb0, StageConsts(1)[2]).kb,
                    !.round_num = round_num,
                    !.loc = [v_val |-> v_val, v_tmp1 |-> v_tmp1, v_tmp2 |-> v_tmp2,
                             batch_start |-> b * VLEN]]
    /\ pc = "emit"

EmitCalled(fn) == \E k \in 1..Len(streams) : streams[k].fn = fn

\* slots = self.build_vhash(v_val, v_tmp1, v_tmp2, round_num, batch_start)
CallBuildVHash ==
    /\ pc = "emit"
    /\ ~EmitCalled("build_vhash")
    /\ \E r \in {build_vhash(kern.kb, kern.loc.v_val, kern.loc.v_tmp1, kern.loc.v_tmp2,
                             kern.round_num, kern.loc.batch_start)} :
          /\ kern' = [kern EXCEPT !.kb = r.kb]
          /\ streams' = Append(streams, [fn |-> "build_vhash", ops |-> r.slots])
    /\ UNCHANGED <<schedVars, allocVars, mach, pc>>

\* slots = self.build_vhash_interleaved([(v_val, v_tmp1, v_tmp2, batch_start)], round_num)
CallBuildVHashInterleaved ==
    /\ pc = "emit"
    /\ ~EmitCalled("build_vhash_interleaved")
    /\ \E r \in {build_vhash_interleaved(kern.kb,
                     << <<kern.loc.v_val, kern.loc.v_tmp1, kern.loc.v_tmp2,
                          kern.loc.batch_start>> >>, kern.round_num)} :
          /\ kern' = [kern EXCEPT !.kb = r.kb]
          /\ streams' = Append(streams, [fn |-> "build_vhash_interleaved", ops |-> r.slots])
    /\ UNCHANGED <<schedVars, allocVars, mach, pc>>

EmitNext == CallBuildVHash \/ CallBuildVHashInterleaved

EmitSpec == EmitInit /\ [][EmitNext]_vars

\* ------------------------------------- the interleaved hash, many batches
\* build_vhash_interleaved called for 1..MaxBatches + 1 batches, with the
\* vectors of build_kernel (v_tmp1 a vector of the batch's own, v_tmp2 the
\* batch's v_val) or with three vectors per batch.
InterleaveBatches(layout, nb, base) ==
    [b \in 1..nb |->
        <<base + (b - 1) * VLEN,
          base + (nb + b - 1) * VLEN,
          IF layout = "kernel" THEN base + (b - 1) * VLEN
          ELSE base + (2 * nb + b - 1) * VLEN,
          (b - 1) * VLEN>>]

InterleaveInit ==
    /\ SLOT_LIMITS = MachineSlotLimits /\ weights = "fixed"
    /\ sched = SchedStart(<<>>)
    /\ alloc = ScratchAllocator(VLEN, SCRATCH_SIZE)
    /\ calls = <<>>
    /\ mach = MachineOff
    /\ streams = <<>>
    /\ \E layout \in HashLayouts : \E nb \in 1..(MaxBatches + 1) :
       \E base \in {0, VLEN} : \E round_num \in 0..(MaxRounds - 1) : \E made \in 0..1 :
       \E kb0 \in {[KernelBuilder EXCEPT !.scratch_ptr = base + 3 * nb * VLEN]} :
          kern = [NoKernel EXCEPT
                    !.kb = IF made = 0 THEN kb0
                           ELSE KB_vec_const(kb0, StageConsts(2)[1]).kb,
                    !.round_num = round_num,
                    !.loc = [layout |-> layout, num_batches |-> nb,
                             batches_info |-> InterleaveBatches(layout, nb, base)]]
    /\ pc = "interleave"

\* slots = self.build_vhash_interleaved(batches_info, round_num)
CallInterleaved ==
    /\ pc = "interleave"
    /\ \E r \in {build_vhash_interleaved(kern.kb, kern.loc.batches_info, kern.round_num)} :
          /\ kern' = [kern EXCEPT !.kb = r.kb]
          /\ streams' = <<[fn |-> "build_vhash_interleaved", ops |-> r.slots]>>
    /\ pc' = "interleaved"
    /\ UNCHANGED <<schedVars, allocVars, mach>>

InterleaveNext == CallInterleaved

InterleaveSpec == InterleaveInit /\ [][InterleaveNext]_vars

\* ------------------------------------------ the interleaved hash, packed
\* The stream of build_vhash_interleaved packed by build(slots, vliw=True)
\* and run by the machine bundle after bundle; mach.entry keeps the scratch
\* after every bundle, from the scratch the program was entered with.
PackedInput(v, b) == HashInput((v + 17 * b) % WordMod)

\* the machine with the lanes of every batch's v_val set
PackedValues(m, batches_info, v) ==
    [m EXCEPT !.scratch =
        [a \in DOMAIN @ |->
            IF \E b \in 1..Len(batches_info) : a \in VRange(batches_info[b][1])
            THEN The({PackedInput(v, b)[a - batches_info[b][1] + 1] :
                      b \in {c \in 1..Len(batches_info) : a \in VRange(batches_info[c][1])}})
            ELSE @[a]]]

\* the machine after the constant-init bundles of the builder, with the
\* lanes of every batch's v_val set
PackedLoaded(kb, batches_info, v) ==
    The({PackedValues([m EXCEPT !.pc = 1], batches_info, v) :
         m \in {ForRange(LAMBDA t, k : MachineStep(t, kb.instrs[k]),
                         [mem |-> <<>>, image |-> <<>>,
                          scratch |-> [a \in 0..(kb.scratch_ptr - 1) |-> 0],
                          pc |-> 1, state |-> "running", entry |-> <<>>],
                         1, Len(kb.instrs))}})

PackedInit ==
    /\ SLOT_LIMITS = MachineSlotLimits
    /\ weights \in {"fixed", "scarcity"}
    /\ alloc = ScratchAllocator(VLEN, SCRATCH_SIZE)
    /\ calls = <<>>
    /\ \E layout \in HashLayouts : \E nb \in 1..MaxBatches :
       \E info \in {InterleaveBatches(layout, nb, 0)} :
       \E r \in {build_vhash_interleaved(
                    [KernelBuilder EXCEPT !.scratch_ptr = 3 * nb * VLEN], info, 0)} :
       \E packed \in {RunCycles(SchedStart(r.slots))} :
       \E consts \in {PackedLoaded(r.kb, info, 0)} :
       \E v \in 0..(WordMod - 1) :
       \E m \in {PackedValues(consts, info, v)} :
          /\ kern = [NoKernel EXCEPT
                       !.kb = r.kb,
                       !.loc = [layout |-> layout, num_batches |-> nb,
                                batches_info |-> info]]
          /\ streams = <<[fn |-> "build_vhash_interleaved", ops |-> r.slots]>>
          /\ sched = packed
          /\ mach = [m EXCEPT !.entry = <<m.scratch>>]
    /\ pc = "packed"

\* the machine executes the next bundle
PackedCycle ==
    /\ pc = "packed"
    /\ mach.pc <= Len(sched.instrs)
    /\ \E m \in {MachineStep(mach, sched.instrs[mach.pc])} :
          mach' = [m EXCEPT !.entry = Append(@, m.scratch)]
    /\ UNCHANGED <<schedVars, allocVars, kern, streams, pc>>

\* the program has run off its end
PackedStop ==
    /\ pc = "packed"
    /\ mach.pc > Len(sched.instrs)
    /\ pc' = "ran"
    /\ UNCHANGED <<schedVars, allocVars, kernVars>>

PackedNext == PackedCycle \/ PackedStop

PackedSpec == PackedInit /\ [][PackedNext]_vars

\* ------------------------------------------- what the machine reads, writes
\* The scratch words an op reads when the machine executes it.  A vselect
\* picks lane by lane, so it reads every lane of its mask.
MachineReads(engine, slot) ==
    CASE engine = "debug" -> {}
      [] engine = "alu" -> {slot[3], slot[4]}
      [] engine = "valu" ->
            CASE slot[1] = "vbroadcast" -> {slot[3]}
              [] slot[1] = "multiply_add" ->
                    VRange(slot[3]) \cup VRange(slot[4]) \cup VRange(slot[5])
              [] OTHER -> VRange(slot[3]) \cup VRange(slot[4])
      [] engine = "load" ->
            CASE slot[1] = "const" -> {}
              [] slot[1] \in {"load", "vload"} -> {slot[3]}
              [] slot[1] = "load_offset" -> {slot[3] + slot[4]}
              [] OTHER -> {}
      [] engine = "store" ->
            CASE slot[1] = "store" -> {slot[2], slot[3]}
              [] slot[1] = "vstore" -> {slot[2]} \cup VRange(slot[3])
              [] OTHER -> {}
      [] engine = "flow" ->
            CASE slot[1] = "select" -> {slot[3], slot[4], slot[5]}
              [] slot[1] = "vselect" ->
                    VRange(slot[3]) \cup VRange(slot[4]) \cup VRange(slot[5])
              [] slot[1] = "add_imm" -> {slot[3]}
              [] slot[1] \in {"cond_jump", "cond_jump_rel"} -> {slot[2]}
              [] OTHER -> {}
      [] OTHER -> {}

\* The scratch words an op writes when the machine executes it.
MachineWrites(engine, slot) ==
    CASE engine = "alu" -> {slot[2]}
      [] engine = "valu" -> VRange(slot[2])
      [] engine = "load" ->
            CASE slot[1] \in {"const", "load"} -> {slot[2]}
              [] slot[1] = "vload" -> VRange(slot[2])
              [] slot[1] = "load_offset" -> {slot[2] + slot[4]}
              [] OTHER -> {}
      [] engine = "flow" ->
            CASE slot[1] \in {"select", "add_imm"} -> {slot[2]}
              [] slot[1] = "vselect" -> VRange(slot[2])
              [] OTHER -> {}
      [] OTHER -> {}

\* ============================================================ properties
\* Helpers over the scheduler's state.
NOps == Len(sched.slots)
EngineOf(i) == sched.slots[i][1]
NonDebug(i) == EngineOf(i) # "debug"
TrueReads(i) == MachineReads(sched.slots[i][1], sched.slots[i][2])
TrueWrites(i) == MachineWrites(sched.slots[i][1], sched.slots[i][2])
Placed(i) == \E k \in 1..Len(sched.cycles) : i \in SeqRange(sched.cycles[k])
\* the index of the bundle op i was placed in
CycleOf(i) == CHOOSE k \in 1..Len(sched.cycles) : i \in SeqRange(sched.cycles[k])
\* how often op i occurs in the emitted cycles
Occurrences(i) ==
    Cardinality({<<k, m>> \in (1..Len(sched.cycles)) \X (1..NOps) :
                    m <= Len(sched.cycles[k]) /\ sched.cycles[k][m] = i})
Pred0 == BuildPred(sched.slots, sched.op_reads, sched.op_writes)

\* C3: for non-debug ops A before B in stream order where A writes a word
\* that B reads (RAW) or also writes (WAW), A's bundle is strictly earlier
\* than B's bundle.
C3_RawWawStrictlyEarlier ==
    \A a, b \in 1..NOps :
        (/\ a < b /\ NonDebug(a) /\ NonDebug(b)
         /\ TrueWrites(a) \cap (TrueReads(b) \cup TrueWrites(b)) # {}
         /\ Placed(b))
        => (Placed(a) /\ CycleOf(a) < CycleOf(b))

\* C4: for non-debug ops A before B in stream order where A reads a word
\* that B writes (WAR), B's bundle is never earlier than A's bundle.
C4_WarNeverEarlier ==
    \A a, b \in 1..NOps :
        (/\ a < b /\ NonDebug(a) /\ NonDebug(b)
         /\ TrueReads(a) \cap TrueWrites(b) # {}
         /\ Placed(b))
        => (Placed(a) /\ CycleOf(a) <= CycleOf(b))

\* C5: every emitted bundle holds at most SLOT_LIMITS[engine] slots of
\* every engine other than debug.
C5_SlotLimitsRespected ==
    \A k \in 1..Len(sched.instrs) : \A e \in Engines \ {"debug"} :
        Len(sched.instrs[k][e]) <= Limit(e)

\* C5 witness: a bundle filled to an engine's limit while another op of that
\* engine, ready from the start, had to wait for the next bundle.
C5_Witness ==
    \E e \in Engines \ {"debug"} : \E j \in 1..NOps :
        /\ Len(sched.cycles) >= 2
        /\ Len(sched.instrs[1][e]) = Limit(e)
        /\ EngineOf(j) = e /\ Pred0[j] = {} /\ sched.war_pred[j] = {}
        /\ j \in SeqRange(sched.cycles[2])

\* C6: within any emitted bundle no two slots write the same scratch word.
C6_NoSharedWriteInBundle ==
    \A k \in 1..Len(sched.cycles) : \A m, n \in 1..Len(sched.cycles[k]) :
        m # n => TrueWrites(sched.cycles[k][m]) \cap TrueWrites(sched.cycles[k][n]) = {}

\* C6 witness: a bundle with two writing slots, and a third writer of one of
\* their words kept out of it.
C6_Witness ==
    \E k \in 1..Len(sched.cycles) : \E i, j \in SeqRange(sched.cycles[k]) :
        /\ i # j /\ TrueWrites(i) # {} /\ TrueWrites(j) # {}
        /\ \E h \in 1..NOps : /\ Placed(h) /\ CycleOf(h) > k
                               /\ TrueWrites(h) \cap TrueWrites(i) # {}

C8_TerminatesWithEveryOpOnce ==
    /\ [][(pc = "cycle" /\ sched.ready # <<>>)
            => Cardinality(sched'.scheduled) > Cardinality(sched.scheduled)]_vars
    /\ [](sched.ready = <<>> =>
            /\ \A i \in 1..NOps : Occurrences(i) = 1
            /\ Len(sched.instrs) = Len(sched.cycles)
            /\ \A k \in 1..Len(sched.instrs) :
                  \A e \in Engines :
                     Len(sched.instrs[k][e]) =
                        Cardinality({i \in SeqRange(sched.cycles[k]) : EngineOf(i) = e}))

\* C8 witness: a full-length stream that took several cycles has returned.
C8_Witness ==
    /\ pc = "done"
    /\ NOps = MaxOps
    /\ Len(sched.cycles) >= 2
    /\ \E k \in 1..Len(sched.cycles) : Len(sched.cycles[k]) >= 2

\* Helpers over the kernel's build and run.
\* the memory words of inp_indices and inp_values
ResultWords ==
    mach.image[5] .. (mach.image[6] + mach.image[2] - 1)
\* stream k's last bundle has just been executed
StreamDone(k) ==
    /\ DOMAIN mach.entry # {}
    /\ mach.pc = streams[k].first + streams[k].count
\* the ops of emitted bundle k
EmittedOps(k) == BundleOps(kern.kb.instrs[k], 1)
\* the scratch words bundle k reads
EmittedReads(k) ==
    UNION {MachineReads(op[1], op[2]) : op \in SeqRange(EmittedOps(k))}
\* the bundles that hold the init op of scalar constant v / vector constant v
LoadConstAt(v) ==
    {j \in 1..Len(kern.kb.instrs) :
        \E op \in SeqRange(kern.kb.instrs[j]["load"]) :
            op = <<"const", kern.kb.const_map[v], v>>}
BroadcastAt(v) ==
    {j \in 1..Len(kern.kb.instrs) :
        \E op \in SeqRange(kern.kb.instrs[j]["valu"]) :
            op = <<"vbroadcast", kern.kb.vec_const_map[v], kern.kb.const_map[v]>>}
\* the bundles that read scalar constant v / a lane of vector constant v
ScalarReadAt(v) ==
    {k \in 1..Len(kern.kb.instrs) : kern.kb.const_map[v] \in EmittedReads(k)}
VectorReadAt(v) ==
    {k \in 1..Len(kern.kb.instrs) :
        VRange(kern.kb.vec_const_map[v]) \cap EmittedReads(k) # {}}

\* C1: for every valid input (any forest_height, any rounds >= 1, batch_size
\* a positive multiple of VLEN, all initial indices 0), when the emitted
\* bundles have run, the inp_indices and inp_values regions of the memory
\* equal what the reference kernel makes of the initial image.
C1_KernelMatchesReference ==
    pc = "ran" =>
        \A ref \in {reference_kernel2(mach.image)} :
            \A a \in ResultWords : mach.mem[a] = ref[a]

\* C2: for each op stream handed to the scheduler in packing mode (init,
\* every round, final), the bundles made of it, executed in order with all
\* reads of a bundle before its writes, leave the scratch and the memory as
\* executing the stream's ops one at a time in stream order leaves them.
C2_BundlesMatchSequential ==
    \A k \in 1..Len(streams) :
        StreamDone(k) =>
            \A m \in {SequentialRun(mach.entry, streams[k].ops)} :
                m.scratch = mach.scratch /\ m.mem = mach.mem

\* C2 witness: the bundles of a round's stream have run, fewer bundles than
\* the stream has ops, one of them holding a reader together with a later op
\* of the stream that writes a word it reads; the scratch has changed.
C2_Witness ==
    \E k \in 2..Len(streams) :
        /\ StreamDone(k)
        /\ streams[k].count < Len(streams[k].ops)
        /\ mach.scratch # mach.entry.scratch
        /\ \E j \in streams[k].first .. (streams[k].first + streams[k].count - 1) :
              \E r, w \in SeqRange(EmittedOps(j)) :
                 /\ r # w
                 /\ MachineReads(r[1], r[2]) \cap MachineWrites(w[1], w[2]) # {}

\* C9: every scratch constant address, scalar or broadcast vector, that an
\* op of the emitted program reads has its init op (the load const, and the
\* vbroadcast for a vector) in a strictly earlier bundle of kb.instrs.  The
\* bundles do not change once build_kernel has returned.
C9_ConstInitStrictlyEarlier ==
    pc \in {"build", "rounds", "built"} =>
        /\ \A v \in DOMAIN kern.kb.const_map :
              \A k \in ScalarReadAt(v) : \E j \in LoadConstAt(v) : j < k
        /\ \A v \in DOMAIN kern.kb.vec_const_map :
              \A k \in VectorReadAt(v) :
                 \E j \in BroadcastAt(v) : \E i \in LoadConstAt(v) : i < j /\ j < k

\* C9 witness: a vector constant first asked for inside the round loop, its
\* init ops emitted behind the init stream's bundles, and read by a bundle
\* of a round.
C9_Witness ==
    /\ pc = "built"
    /\ \E v \in DOMAIN kern.kb.vec_const_map :
          /\ \A j \in LoadConstAt(v) \cup BroadcastAt(v) :
                j >= streams[1].first + streams[1].count
          /\ VectorReadAt(v) # {}
          /\ ScalarReadAt(v) # {}

\* Helpers over the record of allocator calls.
ConstCalls(v) ==
    {k \in 1..Len(calls) : /\ calls[k].fn \in {"scratch_const", "vec_const"}
                           /\ calls[k].val = v /\ ~calls[k].raised}
VecCalls(v) == {k \in ConstCalls(v) : calls[k].fn = "vec_const"}
\* the init bundles returned by all calls so far, as (call, position) pairs
ReturnedInstrs ==
    {<<k, m>> \in (1..Len(calls)) \X (1..2) : m <= Len(calls[k].instrs)}
LoadConstsFor(v) ==
    {km \in ReturnedInstrs :
        LET b == calls[km[1]].instrs[km[2]]
        IN b["load"] # <<>> /\ b["load"][1][1] = "const" /\ b["load"][1][3] = v}
BroadcastsFor(v) ==
    {km \in ReturnedInstrs :
        LET b == calls[km[1]].instrs[km[2]]
        IN /\ calls[km[1]].val = v
           /\ b["valu"] # <<>> /\ b["valu"][1][1] = "vbroadcast"}

PtrAfter(k) ==
    IF k < Len(calls) THEN calls[k + 1].ptr_before ELSE alloc.scratch_ptr
\* the calls of fn for value v that returned
CallsOf(fn, v) ==
    {k \in 1..Len(calls) : calls[k].fn = fn /\ calls[k].val = v /\ ~calls[k].raised}

\* C11: after any sequence of allocator calls each constant value has one
\* scalar address and one vector address: every scratch_const(v) returns the
\* address of the first one and every vec_const(v) that of the first one, a
\* repeated call leaves the arena pointer where it was, and two distinct
\* values share no scratch word (scalar words and vector regions alike).
C11_ConstantsDeduplicated ==
    /\ \A v \in ConstVals :
          /\ \A k \in CallsOf("scratch_const", v) :
                /\ v \in DOMAIN alloc.const_map
                /\ calls[k].addr = alloc.const_map[v]
                /\ (\E j \in CallsOf("scratch_const", v) : j < k)
                      => PtrAfter(k) = calls[k].ptr_before
          /\ \A k \in CallsOf("vec_const", v) :
                /\ v \in DOMAIN alloc.vec_const_map
                /\ calls[k].addr = alloc.vec_const_map[v]
                /\ (\E j \in CallsOf("vec_const", v) : j < k)
                      => PtrAfter(k) = calls[k].ptr_before
    /\ \A v, w \in DOMAIN alloc.const_map :
          v # w => alloc.const_map[v] # alloc.const_map[w]
    /\ \A v, w \in DOMAIN alloc.vec_const_map :
          v # w => VRange(alloc.vec_const_map[v]) \cap VRange(alloc.vec_const_map[w]) = {}
    /\ \A v \in DOMAIN alloc.const_map : \A w \in DOMAIN alloc.vec_const_map :
          alloc.const_map[v] \notin VRange(alloc.vec_const_map[w])

\* C11 witness: a scalar asked for twice and a vector of another value asked
\* for twice, the repeats after the pointer has moved on.
C11_Witness ==
    \E v, w \in ConstVals :
        /\ v # w
        /\ Cardinality(CallsOf("scratch_const", v)) >= 2
        /\ Cardinality(CallsOf("vec_const", w)) >= 2
        /\ {v, w} \subseteq DOMAIN alloc.const_map

\* C12: in every reachable allocator state, the state after an alloc call
\* that fails with "Out of scratch space" included, the arena pointer lies
\* within 0..capacity.
C12_PtrWithinCapacity ==
    pc \in {"calls", "raised"} =>
        /\ 0 <= alloc.scratch_ptr
        /\ alloc.scratch_ptr <= alloc.scratch_size

\* The other half of C12: no call moves the arena pointer back.
C12_PtrNeverDecreases ==
    [][alloc'.scratch_ptr >= alloc.scratch_ptr]_vars

\* The bound of C12 in the states no call has failed in.
C12_PtrWithinCapacityUnlessRaised ==
    pc = "calls" => alloc.scratch_ptr \in 0..alloc.scratch_size

\* The word ranges the calls that returned have handed out, each with the
\* call it came from: the range of an alloc_scratch call, the word of a
\* scratch_const call that placed its value, the region of a vec_const call
\* that placed its vector and the word of the scalar it placed on the way
\* (the source of its vbroadcast, when the load const came back with it).
Granted ==
    {<<k, "direct", calls[k].addr, calls[k].val>> :
        k \in {j \in 1..Len(calls) : calls[j].fn = "alloc_scratch" /\ ~calls[j].raised}}
    \cup
    {<<k, "scalar", calls[k].addr, 1>> :
        k \in {j \in 1..Len(calls) : /\ calls[j].fn = "scratch_const" /\ ~calls[j].raised
                                      /\ calls[j].instrs # <<>>}}
    \cup
    {<<k, "vector", calls[k].addr, alloc.vlen>> :
        k \in {j \in 1..Len(calls) : /\ calls[j].fn = "vec_const" /\ ~calls[j].raised
                                      /\ calls[j].instrs # <<>>}}
    \cup
    {<<k, "scalar", calls[k].instrs[2]["valu"][1][3], 1>> :
        k \in {j \in 1..Len(calls) : /\ calls[j].fn = "vec_const" /\ ~calls[j].raised
                                      /\ Len(calls[j].instrs) = 2}}
WordsOf(g) == g[3] .. (g[3] + g[4] - 1)

\* C13: any two distinct successful allocations, made directly or through
\* scratch_const / vec_const, return disjoint word ranges [addr, addr+length),
\* all of them inside the words the arena pointer has passed.
C13_AllocationsDisjoint ==
    \A g, h \in Granted :
        /\ g # h => WordsOf(g) \cap WordsOf(h) = {}
        /\ WordsOf(g) \subseteq 0..(alloc.scratch_ptr - 1)

\* C13 witness: a direct allocation of a vector, a vec_const that placed its
\* scalar and its vector, and a scratch_const that placed a word after them.
C13_Witness ==
    \E g, h1, h2, i \in Granted :
        /\ g[2] = "direct" /\ g[4] = VLEN
        /\ h1[2] = "scalar" /\ h2[2] = "vector" /\ h1[1] = h2[1]
        /\ i[2] = "scalar" /\ calls[i[1]].fn = "scratch_const"
        /\ g[1] < h1[1] /\ h1[1] < i[1]

\* The init bundles the calls 1..k returned, in the order they came back,
\* and the scratch after a machine has run them from an all-zero scratch.
InitProgram(k) ==
    ForRange(LAMBDA acc, j : acc \o calls[j].instrs, <<>>, 1, k)
ScratchAfter(prog) ==
    ForRange(LAMBDA m, j : MachineStep(m, prog[j]),
             [mem |-> <<>>, scratch |-> [a \in 0..(alloc.scratch_ptr - 1) |-> 0],
              pc |-> 1, state |-> "running"],
             1, Len(prog)).scratch
FirstVecCalls ==
    {k \in 1..Len(calls) :
        /\ calls[k].fn = "vec_const" /\ ~calls[k].raised
        /\ ~\E j \in CallsOf("vec_const", calls[k].val) : j < k}
ScalarExistedBefore(k) ==
    \E j \in CallsOf("scratch_const", calls[k].val) : j < k

\* C14: the first vec_const(v) returns the scalar's load const (only if no
\* scalar for v existed yet) followed by one vbroadcast from the scalar's
\* address into a fresh region of VLEN words; once the init ops returned so
\* far have run in order, each of the VLEN words at the returned address
\* holds v.
C14_VecConstInit ==
    \A k \in FirstVecCalls :
        \A v \in {calls[k].val} : \A a \in {calls[k].addr} :
        \A s \in {alloc.const_map[v]} :
            /\ calls[k].instrs =
                  (IF ScalarExistedBefore(k) THEN <<>>
                   ELSE <<Bundle1("load", <<"const", s, v>>)>>)
                  \o <<Bundle1("valu", <<"vbroadcast", a, s>>)>>
            /\ a = calls[k].ptr_before + (IF ScalarExistedBefore(k) THEN 0 ELSE 1)
            /\ PtrAfter(k) = a + VLEN
            /\ \A sc \in {ScratchAfter(InitProgram(k))} :
                  \A i \in 0..(VLEN - 1) : sc[a + i] = v

\* C14 witness: a first vec_const of a non-zero value whose scalar was there
\* (the vbroadcast alone comes back) after one that had to place its scalar.
C14_Witness ==
    \E j, k \in FirstVecCalls :
        /\ j < k
        /\ Len(calls[j].instrs) = 2 /\ calls[j].val # 0
        /\ Len(calls[k].instrs) = 1 /\ calls[k].val # 0 /\ ScalarExistedBefore(k)

\* C15: two runs of the scheduler on identical inputs (op stream,
\* SLOT_LIMITS, VLEN) give identical bundle sequences, the order of the slots
\* inside each engine list included: whatever order the ready list reaches
\* the head of a cycle in, the bundles emitted so far are the first bundles
\* of the run that takes the list as the code leaves it, and at the return
\* they are all of them.
C15_SameInputSameBundles ==
    \A ref \in {VLIWBuild(sched.slots, TRUE)} :
        /\ Len(sched.instrs) <= Len(ref)
        /\ sched.instrs = SubSeq(ref, 1, Len(sched.instrs))
        /\ pc = "done" => sched.instrs = ref

\* C15 witness: after the first bundle, a ready list that holds two ops of
\* one engine and equal height, the later op of the stream first: only the
\* op index of the sort key tells them apart.
C15_Witness ==
    /\ pc = "cycle"
    /\ sched.instrs # <<>>
    /\ \E a, b \in 1..Len(sched.ready) :
          /\ a < b
          /\ sched.ready[a] > sched.ready[b]
          /\ sched.slots[sched.ready[a]][1] = sched.slots[sched.ready[b]][1]
          /\ sched.height[sched.ready[a]] = sched.height[sched.ready[b]]
          /\ sched.slots[sched.ready[a]][1] # "debug"

\* The stages of the hash that build_vhash_interleaved rewrites.
RewrittenStages ==
    {hi \in 1..Len(HASH_STAGES) :
        HASH_STAGES[hi][1] = "+" /\ HASH_STAGES[hi][3] = "+" /\ HASH_STAGES[hi][4] = "<<"}
\* the multiply_add emitted for stage hi, on the batch of the hash
EmittedMultiplyAdd(hi) ==
    StageOps(hi, << <<kern.loc.v_val, kern.loc.v_tmp1, kern.loc.v_tmp2, 0>> >>, 0,
             kern.kb.vec_const_map[StageConsts(hi)[1]],
             kern.kb.vec_const_map[StageConsts(hi)[2]])[1]
\* the hash with every stage in the 3-op pattern: op1 and op3 into the two
\* temporaries, op2 of the temporaries into v_val
ThreeOpStage(hi, batches_info, round_num, vc1, vc3) ==
    LET st == HASH_STAGES[hi]
    IN Flatten([b \in 1..Len(batches_info) |->
          << <<"valu", <<st[1], batches_info[b][2], batches_info[b][1], vc1>>>>,
             <<"valu", <<st[4], batches_info[b][3], batches_info[b][1], vc3>>>>,
             <<"valu", <<st[3], batches_info[b][1], batches_info[b][2],
                            batches_info[b][3]>>>>,
             Vcompare(batches_info[b][1], round_num, batches_info[b][4],
                      <<"hash_stage", hi - 1>>) >>])
RECURSIVE ExpandedFrom(_, _, _, _, _)
ExpandedFrom(kb, batches_info, round_num, hi, slots) ==
    IF hi > Len(HASH_STAGES) THEN [kb |-> kb, slots |-> slots]
    ELSE The({The({The({ExpandedFrom(c3.kb, batches_info, round_num, hi + 1, ns) :
                        ns \in {slots \o ThreeOpStage(hi, batches_info, round_num,
                                                     c1.addr, c3.addr)}}) :
                   c3 \in {KB_vec_const(c1.kb, HASH_STAGES[hi][5])}}) :
              c1 \in {KB_vec_const(kb, HASH_STAGES[hi][2])}})
build_vhash_expanded(kb, batches_info, round_num) ==
    ExpandedFrom(kb, batches_info, round_num, 1, <<>>)
\* the scratch after the expanded hash has run on the input of this run
ExpandedScratch ==
    The({SequentialRun(HashLoaded(f, [lane \in 1..VLEN |->
                                         mach.entry.scratch[kern.loc.v_val + lane - 1]]),
                       f.slots).scratch :
         f \in {HashFrame(build_vhash_expanded, kern.loc.layout)}})
HashWords ==
    VRange(kern.loc.v_val) \cup VRange(kern.loc.v_tmp1) \cup VRange(kern.loc.v_tmp2)

\* C16: for every hash stage with op1 = +, op2 = +, op3 = <<, the one
\* multiply_add emitted for it leaves in each lane of v_val the word the
\* 3-op expansion (v + val1) + (v << val3) computes from the lane's word v,
\* modulo 2^w, and the hash with every rewrite replaced by its expansion
\* ends with the same words in v_val and in the two temporaries.
C16_MultiplyAddEqualsExpansion ==
    pc \in {"hash", "hashed"} =>
        /\ \A hi \in RewrittenStages :
           \A after \in {SequentialStep(mach, EmittedMultiplyAdd(hi)).scratch} :
           \A a \in VRange(kern.loc.v_val) :
              after[a] = MachineAlu("+",
                            MachineAlu("+", mach.scratch[a], HASH_STAGES[hi][2]),
                            MachineAlu("<<", mach.scratch[a], HASH_STAGES[hi][5]))
        /\ pc = "hashed" =>
              \A expanded \in {ExpandedScratch} :
                 \A a \in HashWords : mach.scratch[a] = expanded[a]

\* C16 witness: the hash has run, in the layout of build_kernel, on a word
\* whose product with the multiplier of a rewritten stage leaves the word.
C16_Witness ==
    /\ pc = "hashed"
    /\ kern.loc.layout = "kernel"
    /\ mach.scratch # mach.entry.scratch
    /\ \E hi \in RewrittenStages :
          mach.entry.scratch[kern.loc.v_val] * StageConsts(hi)[1] >= WordMod

\* C17: with vliw false the scheduler returns one bundle per input op, in
\* input order, each holding that op alone under its engine and nothing
\* under any other engine.
C17_TrivialOneBundlePerOp ==
    pc = "done" =>
        /\ Len(sched.instrs) = Len(sched.slots)
        /\ \A i \in 1..Len(sched.slots) :
              /\ sched.instrs[i][sched.slots[i][1]] = <<sched.slots[i][2]>>
              /\ \A e \in Engines \ {sched.slots[i][1]} : sched.instrs[i][e] = <<>>

\* C17 witness: a stream returned op by op that packing would have put into
\* fewer bundles and in another order.
C17_Witness ==
    /\ pc = "done"
    /\ sched.instrs # <<>>
    /\ \A packed \in {VLIWBuild(sched.slots, TRUE)} :
          /\ Len(packed) < Len(sched.instrs)
          /\ \E e \in Engines : Len(packed[1][e]) >= 2
    /\ \E i \in 1..Len(sched.slots) : sched.slots[i][1] = "debug"

\* Helpers over one pass of the cycle loop, from sched to sched'.
\* B has a WAR dependency on the earlier op A and nothing else: A reads a
\* word B writes, and B neither reads nor writes a word A writes (the read
\* and write sets are those the scheduler extracts)
WarOnly(a, b) ==
    /\ a < b /\ NonDebug(a) /\ NonDebug(b)
    /\ sched.op_reads[a] \cap sched.op_writes[b] # {}
    /\ sched.op_writes[a] \cap (sched.op_reads[b] \cup sched.op_writes[b]) = {}
\* the earlier readers of the words x writes, other than those in but, are
\* in bundles already emitted
EarlierReadersDone(x, but) ==
    \A z \in (1..(x - 1)) \ but :
        (NonDebug(z) /\ sched.op_reads[z] \cap sched.op_writes[x] # {})
            => z \in sched.scheduled
\* the ops the pass has put into its bundle
NewBundleOps ==
    IF Len(sched'.cycles) > Len(sched.cycles)
    THEN SeqRange(sched'.cycles[Len(sched'.cycles)]) ELSE {}
\* the bundle of the pass has a slot of x's engine that no other op took
RoomFor(x) ==
    Cardinality({i \in NewBundleOps \ {x} : EngineOf(i) = EngineOf(x)}) < Limit(EngineOf(x))

\* C18: when op B has only a WAR dependency on an earlier op A and both are
\* on the ready list at the head of a cycle, with no other reader of their
\* words still to come and a slot of the bundle free for each, the cycle
\* places A and B in its bundle, whichever of them the priority order
\* attempts first.
C18_SameCycleWar ==
    [][(pc = "cycle" /\ sched.ready # <<>>) =>
          \A a, b \in SeqRange(sched.ready) :
              (/\ WarOnly(a, b)
               /\ EarlierReadersDone(a, {})
               /\ EarlierReadersDone(b, {a})
               /\ RoomFor(a) /\ RoomFor(b))
              => {a, b} \subseteq NewBundleOps]_vars

\* C18 as stated, the dependency taken pair by pair: B has a WAR dependency
\* on A and no RAW/WAW with it, both are on the ready list and the bundle
\* has a slot free for each; then the cycle places both.
C18_SameCycleWarPairwise ==
    [][(pc = "cycle" /\ sched.ready # <<>>) =>
          \A a, b \in SeqRange(sched.ready) :
              (WarOnly(a, b) /\ RoomFor(a) /\ RoomFor(b))
              => {a, b} \subseteq NewBundleOps]_vars

\* C18 witness: a bundle that holds a reader and the later writer of the
\* word it reads, the writer ahead of the reader in the priority order (it
\* was attempted first, put back and placed by the re-sweep).
C18_Witness ==
    \E k \in 1..Len(sched.cycles) : \E a, b \in SeqRange(sched.cycles[k]) :
        /\ WarOnly(a, b)
        /\ a \in sched.war_pred[b]
        /\ KeyLess(sched.slots, sched.height, b, a)
        /\ Pred0[a] = {} /\ Pred0[b] = {}

\* C19: build_kernel called with a batch_size that is not a multiple of VLEN
\* fails at once with a construction error: it never gets past its entry
\* and emits no bundle.
C19_PartialBatchRejected ==
    (pc \in {"build", "rounds", "built", "raised"} /\ kern.batch_size % VLEN # 0) =>
        /\ pc \in {"build", "raised"}
        /\ kern.kb.instrs = <<>>

\* C20: in packing mode a stream holding an op whose opcode the read-set and
\* write-set extraction has no form for makes the scheduler fail with a
\* construction error: build never returns bundles for it.
C20_UnknownOpcodeRejected ==
    (\E k \in 1..Len(sched.slots) :
        ~HasBranch(sched.slots[k][1], sched.slots[k][2])) => pc # "done"

\* C21: in packing mode, when the limit of an engine is zero and the stream
\* holds an op for that engine, build stops with a fatal error: it neither
\* runs forever nor returns.
C21_ZeroLimitIsFatal ==
    (pc = "entry" /\ \E k \in 1..Len(sched.slots) : Limit(sched.slots[k][1]) = 0)
        ~> (pc = "raised")

\* With a zero limit build never returns bundles that leave an op out.
C21_NoScheduleOmitsAnOp ==
    pc = "done" => \A i \in 1..Len(sched.slots) : i \in sched.scheduled

\* ---------------------------------------------------------------- C22
HeaderBundles == 2 * Len(init_vars)

\* C22: the emitted program starts with the header prologue: for i = 0..6
\* in order, a one-op bundle loading constant i into tmp1, then a one-op
\* bundle loading mem[tmp1] into the scratch word named init_vars[i]; the
\* only flow pause of the program is the bundle right after these 14.
C22_HeaderPrologueThenPause ==
    pc \in {"rounds", "built", "run", "ran"} =>
        \A tmp1 \in {kern.kb.scratch[<<"tmp1">>]} :
            /\ Len(kern.kb.instrs) > HeaderBundles
            /\ \A i \in 0..(Len(init_vars) - 1) :
                  /\ kern.kb.instrs[2 * i + 1] = Bundle1("load", <<"const", tmp1, i>>)
                  /\ kern.kb.instrs[2 * i + 2] =
                        Bundle1("load", <<"load", kern.kb.scratch[<<init_vars[i + 1]>>], tmp1>>)
            /\ kern.kb.instrs[HeaderBundles + 1] = Bundle1("flow", <<"pause">>)
            /\ \A k \in 1..Len(kern.kb.instrs) :
                  HasPause(kern.kb.instrs[k]) => k = HeaderBundles + 1
            /\ \A i, j \in 1..Len(init_vars) :
                  /\ kern.kb.scratch[<<init_vars[i]>>] # tmp1
                  /\ i # j => kern.kb.scratch[<<init_vars[i]>>] # kern.kb.scratch[<<init_vars[j]>>]

\* The machine has stopped at the pause of a finished program: the seven
\* header words of the image are in their scratch words.
C22_Witness ==
    /\ pc = "run"
    /\ mach.state = "paused"
    /\ mach.pc = HeaderBundles + 2
    /\ Len(kern.kb.instrs) > HeaderBundles + 1
    /\ \A i \in 1..Len(init_vars) :
          mach.scratch[kern.kb.scratch[<<init_vars[i]>>]] = mach.mem[i - 1]
    /\ mach.scratch[kern.kb.scratch[<<"n_nodes">>]] = kern.n_nodes

\* ---------------------------------------------------------------- C23
\* the ops in the bundles emitted for stream k, bundle after bundle
RangeOps(k) ==
    Flatten([j \in 1..streams[k].count |-> EmittedOps(streams[k].first + j - 1)])

TimesIn(seq, x) == Cardinality({i \in 1..Len(seq) : seq[i] = x})

\* the bundles of stream k hold the ops of stream k, each as often as the
\* stream holds it, and nothing else
OwnOpsOnly(k) ==
    \A ops \in {RangeOps(k)} :
        /\ Len(ops) = Len(streams[k].ops)
        /\ \A x \in SeqRange(ops) : TimesIn(ops, x) = TimesIn(streams[k].ops, x)

\* C23: in the accumulated bundles the bundles of the init stream come
\* before those of round 0, those of round r before those of round r + 1,
\* and those of every round before the finalisation bundles; no scheduled
\* bundle holds ops of two phases or rounds.
C23_PhasesInOrder ==
    pc \in {"rounds", "built"} =>
        /\ Len(streams) = 1 + kern.round_num + (IF pc = "built" THEN 1 ELSE 0)
        /\ streams[1].ops = InitOps(kern.kb, kern.loc)
        /\ pc = "built" => streams[Len(streams)].ops = FinalOps(kern.kb, kern.loc)
        /\ \A k \in 1..Len(streams) :
              /\ streams[k].first >= 1
              /\ streams[k].first + streams[k].count - 1 <= Len(kern.kb.instrs)
              /\ k < Len(streams) =>
                    streams[k].first + streams[k].count <= streams[k + 1].first
              /\ OwnOpsOnly(k)

\* A finished build of two rounds or more in which every stream was packed
\* into fewer bundles than it has ops, and constant-init bundles lie
\* between the init stream and round 0.
C23_Witness ==
    /\ pc = "built"
    /\ Len(streams) >= 4
    /\ \A k \in 1..Len(streams) :
          streams[k].count >= 1 /\ streams[k].count < Len(streams[k].ops)
    /\ streams[2].first > streams[1].first + streams[1].count

\* ---------------------------------------------------------------- C25
\* C25: for a single batch, build_vhash_interleaved([(v_val, v_tmp1, v_tmp2,
\* batch_start)], round) returns exactly the op sequence build_vhash(v_val,
\* v_tmp1, v_tmp2, round, batch_start) returns, whichever is called first.
C25_SingleBatchSameOps ==
    \A i, j \in 1..Len(streams) : streams[i].ops = streams[j].ops

\* Both have been called, with v_tmp2 on v_val as the traversal passes them,
\* and the ops hold both a multiply_add and a 3-op stage.
C25_Witness ==
    /\ Len(streams) = 2
    /\ streams[1].fn = "build_vhash_interleaved"
    /\ kern.loc.v_tmp2 = kern.loc.v_val /\ kern.loc.v_tmp1 # kern.loc.v_val
    /\ \E k \in 1..Len(streams[2].ops) : streams[2].ops[k][2][1] = "multiply_add"
    /\ \E k \in 1..Len(streams[2].ops) :
          streams[2].ops[k][1] = "valu" /\ streams[2].ops[k][2][2] = kern.loc.v_tmp1

\* ---------------------------------------------------------------- C26
\* the stream whose bundles the machine is in, entered with mach.entry
RoundStreams ==
    {k \in 2..Len(streams) :
        /\ k <= 1 + kern.rounds
        /\ DOMAIN mach.entry # {}
        /\ mach.pc = streams[k].first + 1}

\* where stream k xors the node value of batch b into v_val
XorAt(k, b) ==
    CHOOSE p \in 1..Len(streams[k].ops) :
        /\ streams[k].ops[p] = <<"valu", <<"^", kern.loc.v_val[b], kern.loc.v_val[b],
                                            kern.loc.v_node_val[b]>>>>
        /\ \A q \in 1..(p - 1) : streams[k].ops[q] # streams[k].ops[p]

\* the words of v_node_val[b] when the ops of stream k have run up to that xor
NodeValXored(k, b) ==
    \A m \in {SequentialRun([scratch |-> mach.entry.scratch, mem |-> mach.entry.mem],
                            SubSeq(streams[k].ops, 1, XorAt(k, b) - 1))} :
        \A lane \in 0..(VLEN - 1) :
            m.scratch[kern.loc.v_node_val[b] + lane] =
                mach.entry.mem[mach.entry.mem[4] + mach.entry.scratch[kern.loc.v_idx[b] + lane]]

\* C26: in every round and for every lane, the node value xored into v_val
\* is forest_values[idx], idx being the lane's index at the start of the
\* round: the broadcast of rounds 0 and 11 and the select of rounds 1 and 12
\* give what a per-lane gather gives, for every forest_height and rounds.
C26_NodeValueIsForestAtIdx ==
    pc = "run" => \A k \in RoundStreams : \A b \in 1..kern.loc.num_batches : NodeValXored(k, b)

\* In a forest of height 1 or more the node value is forest_values[idx] in
\* every round below 11: there the rounds' shapes agree with the traversal.
C26_NodeValueInTallForest ==
    kern.forest_height >= 1 => C26_NodeValueIsForestAtIdx

\* ---------------------------------------------------------------- C27
\* the round streams whose last bundle the machine has just executed
RoundsDone == {k \in 2..Len(streams) : k <= 1 + kern.rounds /\ StreamDone(k)}

\* the index of a lane when the round was entered and now, its value now
IdxBefore(b, lane) == mach.entry.scratch[kern.loc.v_idx[b] + lane]
IdxAfter(b, lane) == mach.scratch[kern.loc.v_idx[b] + lane]
ValAfter(b, lane) == mach.scratch[kern.loc.v_val[b] + lane]

\* the update of the reference kernel
RefNextIdx(idx, val, n_nodes) ==
    LET nxt == 2 * idx + (IF val % 2 = 0 THEN 1 ELSE 2)
    IN IF nxt >= n_nodes THEN 0 ELSE nxt

\* C27: after the branchless index update of any round every lane's index
\* is the reference update of the index it entered the round with (2*idx + 1
\* when the hashed value is even, 2*idx + 2 when odd, 0 when that is
\* >= n_nodes), so 0 <= idx < n_nodes after every round.
C27_IndexUpdateMatchesReference ==
    pc = "run" =>
        \A k \in RoundsDone : \A b \in 1..kern.loc.num_batches : \A lane \in 0..(VLEN - 1) :
            /\ IdxAfter(b, lane) =
                  RefNextIdx(IdxBefore(b, lane), ValAfter(b, lane), kern.n_nodes)
            /\ 0 <= IdxAfter(b, lane)
            /\ IdxAfter(b, lane) < kern.n_nodes

\* A round has ended, in a forest of height 2 or more, in which a lane that
\* stood off the root wrapped to it.
C27_Witness ==
    /\ pc = "run"
    /\ RoundsDone # {}
    /\ \E b \in 1..kern.loc.num_batches : \E lane \in 0..(VLEN - 1) :
          IdxBefore(b, lane) > 0 /\ IdxAfter(b, lane) = 0
    /\ kern.forest_height >= 2

\* A round has ended with lanes on a left and on a right child.
C27_WitnessBothChildren ==
    /\ pc = "run"
    /\ RoundsDone # {}
    /\ \E b1, b2 \in 1..kern.loc.num_batches : \E l1, l2 \in 0..(VLEN - 1) :
          /\ IdxAfter(b1, l1) = 2 * IdxBefore(b1, l1) + 1
          /\ IdxAfter(b2, l2) = 2 * IdxBefore(b2, l2) + 2

\* ---------------------------------------------------------------- C28
\* The returned stream, and the stage an op of it belongs to: the stage of
\* the first vcompare at or after it.
HashStream == streams[1].ops

StageOfOp(p) ==
    LET q == CHOOSE q \in p..Len(HashStream) :
                /\ HashStream[q][1] = "debug"
                /\ \A r \in p..(q - 1) : HashStream[r][1] # "debug"
    IN HashStream[q][2][3][1][4] + 1

ValuOps == {p \in 1..Len(HashStream) : HashStream[p][1] = "valu"}

\* the op at p is batch b's multiply_add / op1 / op3 / op2 of its stage
IsMultiplyAdd(p, b) ==
    /\ HashStream[p][2][1] = "multiply_add"
    /\ HashStream[p][2][2] = kern.loc.batches_info[b][1]
    /\ HashStream[p][2][3] = kern.loc.batches_info[b][1]
IsOp1(p, b) ==
    /\ HashStream[p][2][1] = HASH_STAGES[StageOfOp(p)][1]
    /\ HashStream[p][2][2] = kern.loc.batches_info[b][2]
    /\ HashStream[p][2][3] = kern.loc.batches_info[b][1]
    /\ HashStream[p][2][4] = kern.kb.vec_const_map[HASH_STAGES[StageOfOp(p)][2]]
IsOp3(p, b) ==
    /\ HashStream[p][2][1] = HASH_STAGES[StageOfOp(p)][4]
    /\ HashStream[p][2][2] = kern.loc.batches_info[b][3]
    /\ HashStream[p][2][3] = kern.loc.batches_info[b][1]
    /\ HashStream[p][2][4] = kern.kb.vec_const_map[HASH_STAGES[StageOfOp(p)][5]]
IsOp2(p, b) ==
    /\ HashStream[p][2][1] = HASH_STAGES[StageOfOp(p)][3]
    /\ HashStream[p][2] = <<HASH_STAGES[StageOfOp(p)][3], kern.loc.batches_info[b][1],
                            kern.loc.batches_info[b][2], kern.loc.batches_info[b][3]>>

\* the ops that write the output of stage hi, and those that read its input
StageWriters(hi) ==
    {p \in ValuOps : StageOfOp(p) = hi /\
        \E b \in 1..kern.loc.num_batches : IsMultiplyAdd(p, b) \/ IsOp2(p, b)}
StageReaders(hi) ==
    {p \in ValuOps : StageOfOp(p) = hi /\
        \E b \in 1..kern.loc.num_batches : IsMultiplyAdd(p, b) \/ IsOp1(p, b) \/ IsOp3(p, b)}

\* C28: in the stream build_vhash_interleaved returns, for every stage and
\* every pair of batches, each op that writes a stage-i output (the
\* multiply_add or the op2 op) comes before every op that reads a
\* stage-(i+1) input, and within a general stage the op1 and op3 ops of all
\* batches come before any op2 op.
C28_StrictlyStaged ==
    pc = "interleaved" =>
        /\ \A p \in ValuOps : \E hi \in 1..Len(HASH_STAGES) :
              p \in StageWriters(hi) \cup StageReaders(hi)
        /\ \A hi \in 1..Len(HASH_STAGES) :
              /\ Cardinality(StageWriters(hi)) = kern.loc.num_batches
              /\ hi < Len(HASH_STAGES) =>
                    \A p \in StageWriters(hi) : \A q \in StageReaders(hi + 1) : p < q
              /\ \A p, q \in ValuOps : \A b1, b2 \in 1..kern.loc.num_batches :
                    (/\ StageOfOp(p) = hi /\ StageOfOp(q) = hi
                     /\ IsOp1(p, b1) \/ IsOp3(p, b1)
                     /\ IsOp2(q, b2)) => p < q

\* The hash of three batches in the vectors of build_kernel has been emitted.
C28_Witness ==
    /\ pc = "interleaved"
    /\ kern.loc.num_batches = MaxBatches + 1
    /\ kern.loc.layout = "kernel"
    /\ \E hi \in 1..Len(HASH_STAGES) :
          Cardinality(StageReaders(hi)) = 2 * kern.loc.num_batches
    /\ \E hi \in 1..Len(HASH_STAGES) :
          StageReaders(hi) = StageWriters(hi) /\ StageReaders(hi) # {}

\* ---------------------------------------------------------------- C29
\* the bundles executed so far
Executed == Len(mach.entry) - 1

\* the op that writes batch b's output of stage hi, and the lanes of
\* batch b's v_val after the bundle that holds it (stage 0: on entry)
StageWriter(hi, b) ==
    CHOOSE p \in StageWriters(hi) : IsMultiplyAdd(p, b) \/ IsOp2(p, b)

StageOutAt(hi, b) == IF hi = 0 THEN 0 ELSE CycleOf(StageWriter(hi, b))

StageOut(hi, b) ==
    [lane \in 1..VLEN |->
        mach.entry[StageOutAt(hi, b) + 1][kern.loc.batches_info[b][1] + lane - 1]]

GeneralStages == (1..Len(HASH_STAGES)) \ RewrittenStages

\* (a op1 val1) op2 (a op3 val3)
StageValue(hi, a) ==
    MachineAlu(HASH_STAGES[hi][3], MachineAlu(HASH_STAGES[hi][1], a, HASH_STAGES[hi][2]),
                                   MachineAlu(HASH_STAGES[hi][4], a, HASH_STAGES[hi][5]))

\* C29: for a general hash stage the packed program computes, per lane,
\* v_val = (v_val op1 val1) op2 (v_val op3 val3) from the v_val the stage
\* was entered with, also when v_tmp2 is v_val itself, so that the op3 op
\* overwrites v_val in place after the op1 op has read it.
C29_GeneralStageValue ==
    pc = "ran" =>
        \A hi \in GeneralStages : \A b \in 1..kern.loc.num_batches :
            /\ StageOutAt(hi - 1, b) < StageOutAt(hi, b)
            /\ StageOutAt(hi, b) <= Executed
            /\ \A lane \in 1..VLEN :
                  StageOut(hi, b)[lane] = StageValue(hi, StageOut(hi - 1, b)[lane])

\* The packed hash of two batches with v_tmp2 on v_val has run: in some
\* general stage the op1 op and the op3 op that overwrites what it reads
\* share a bundle, and that stage changed v_val.
C29_Witness ==
    /\ pc = "ran"
    /\ kern.loc.layout = "kernel"
    /\ kern.loc.num_batches = MaxBatches
    /\ \E hi \in GeneralStages : \E p, q \in StageReaders(hi) :
          /\ IsOp1(p, 1) /\ IsOp3(q, 1)
          /\ CycleOf(p) = CycleOf(q)
          /\ StageOut(hi, 1) # StageOut(hi - 1, 1)

\* ---------------------------------------------------------------- C30
\* HashBuilder(ScratchAllocator()): the emitter of kernel_hash.py with the
\* allocator of kernel_memory.py behind its vec_const.  The value an op
\* carries at a constant's operand position is written with its Python type:
\* <<"int", n>> for an integer, <<"tuple", a, b>> for the pair (a, b).
PyInt(n) == <<"int", n>>

PyPair(a, b) == <<"tuple", a, b>>

\* HashBuilder.vec_const: what the allocator's vec_const returns, handed on
\* as it is; ScratchAllocator.vec_const returns the pair (vec, vec_instrs)
HashBuilder_vec_const(a, val) ==
    LET r == vec_const(a, val)
    IN [alloc |-> r.alloc, ret |-> PyPair(r.addr, r.instrs), raised |-> r.raised]

\* HashBuilder.build_vhash_interleaved, from stage hi on; an allocation that
\* raises ends the call with no stream returned
RECURSIVE HashBuilderFrom(_, _, _, _, _)
HashBuilderFrom(a, batches_info, round_num, hi, slots) ==
    IF hi > Len(HASH_STAGES) THEN [alloc |-> a, slots |-> slots, raised |-> FALSE]
    ELSE The({IF m.raised THEN [alloc |-> m.alloc, slots |-> <<>>, raised |-> TRUE]
              ELSE The({IF c.raised
                        THEN [alloc |-> c.alloc, slots |-> <<>>, raised |-> TRUE]
                        ELSE HashBuilderFrom(c.alloc, batches_info, round_num, hi + 1,
                                 slots \o StageOps(hi, batches_info, round_num,
                                                   m.ret, c.ret)) :
                        c \in {HashBuilder_vec_const(m.alloc, StageConsts(hi)[2])}}) :
              m \in {HashBuilder_vec_const(a, StageConsts(hi)[1])}})

\* The allocator has the batches' vectors placed and room for one vector
\* constant or for all of them; it has made none, or one, of the hash
\* constants before.
HashBuilderRooms == {VLEN + 1, 2 * Len(HASH_STAGES) * (VLEN + 1)}

HashBuilderInit ==
    /\ SLOT_LIMITS = MachineSlotLimits /\ weights = "scarcity"
    /\ sched = SchedStart(<<>>)
    /\ calls = <<>>
    /\ mach = MachineOff
    /\ streams = <<>>
    /\ \E layout \in HashLayouts : \E nb \in 1..(MaxBatches + 1) :
       \E base \in {0, VLEN} : \E round_num \in 0..(MaxRounds - 1) :
       \E made \in 0..1 : \E room \in HashBuilderRooms :
       \E a0 \in {[ScratchAllocator(VLEN, base + 3 * nb * VLEN + (made + 1) * room)
                     EXCEPT !.scratch_ptr = base + 3 * nb * VLEN]} :
          /\ alloc = IF made = 0 THEN a0
                     ELSE vec_const(a0, StageConsts(1)[1]).alloc
          /\ kern = [NoKernel EXCEPT
                       !.round_num = round_num,
                       !.loc = [layout |-> layout, num_batches |-> nb,
                                batches_info |-> InterleaveBatches(layout, nb, base)]]
    /\ pc = "hashbuilder"

\* slots = HashBuilder(allocator).build_vhash_interleaved(batches_info, round_num)
CallHashBuilder ==
    /\ pc = "hashbuilder"
    /\ \E r \in {HashBuilderFrom(alloc, kern.loc.batches_info, kern.round_num, 1, <<>>)} :
          /\ alloc' = r.alloc
          /\ streams' = IF r.raised THEN streams
                        ELSE <<[fn |-> "build_vhash_interleaved", ops |-> r.slots]>>
          /\ pc' = IF r.raised THEN "raised" ELSE "emitted"
    /\ UNCHANGED <<schedVars, calls, kern, mach>>

HashBuilderNext == CallHashBuilder

HashBuilderSpec == HashBuilderInit /\ [][HashBuilderNext]_vars

\* C30: in the stream HashBuilder returns over the scratch allocator, every
\* multiply_add belongs to a rewrite stage (+, +, <<) and carries, as its
\* multiplier operand and its additive operand, the scratch addresses of the
\* vector constants 1 + 2^val3 and val1 of that stage.
C30_MultiplyAddOperandsAreAddresses ==
    pc = "emitted" =>
        \A p \in ValuOps :
            HashStream[p][2][1] = "multiply_add" =>
                LET st == HASH_STAGES[StageOfOp(p)]
                IN /\ st[1] = "+" /\ st[3] = "+" /\ st[4] = "<<"
                   /\ 1 + Pow2(st[5]) \in DOMAIN alloc.vec_const_map
                   /\ st[2] \in DOMAIN alloc.vec_const_map
                   /\ HashStream[p][2][4] = PyInt(alloc.vec_const_map[1 + Pow2(st[5])])
                   /\ HashStream[p][2][5] = PyInt(alloc.vec_const_map[st[2]])

\* What the operands are instead: the pair (address, init bundles) the
\* allocator returned, the bundles being the const load and the vbroadcast
\* of a constant made by this call and empty for one made before.
C30_OperandsArePairs ==
    pc = "emitted" =>
        \A p \in ValuOps :
            HashStream[p][2][1] = "multiply_add" =>
                LET st == HASH_STAGES[StageOfOp(p)]
                    mult == 1 + Pow2(st[5])
                    m == HashStream[p][2][4]
                    c == HashStream[p][2][5]
                IN /\ st[1] = "+" /\ st[3] = "+" /\ st[4] = "<<"
                   /\ m[1] = "tuple" /\ m[2] = alloc.vec_const_map[mult]
                   /\ c[1] = "tuple" /\ c[2] = alloc.vec_const_map[st[2]]
                   /\ Len(m[3]) \in {0, 2} /\ Len(c[3]) \in {0, 2}

\* reached: a stream with a multiply_add whose multiplier was made before the
\* call and whose additive constant was made by it
C30_Reached ==
    /\ pc = "emitted"
    /\ \E p \in ValuOps :
          /\ HashStream[p][2][1] = "multiply_add"
          /\ HashStream[p][2][4][3] = <<>>
          /\ Len(HashStream[p][2][5][3]) = 2

\* ---------------------------------------------------------------- C34
\* the last op before i that writes word w, if there is one
LastWriters(i, w) ==
    {a \in 1..(i - 1) :
        /\ NonDebug(a) /\ w \in sched.op_writes[a]
        /\ \A c \in (a + 1)..(i - 1) : ~(NonDebug(c) /\ w \in sched.op_writes[c])}

\* C34: the read-set the scheduler computes for a vselect holds all VLEN
\* words of the mask vector and all VLEN words of both vector operands, and
\* the last earlier writer of any lane of the mask is in pred of the vselect.
C34_VselectReadsWholeMask ==
    \A i \in 1..NOps :
        (EngineOf(i) = "flow" /\ sched.slots[i][2][1] = "vselect") =>
            /\ (VRange(sched.slots[i][2][3]) \cup VRange(sched.slots[i][2][4])
                   \cup VRange(sched.slots[i][2][5])) \subseteq sched.op_reads[i]
            /\ \A w \in VRange(sched.slots[i][2][3]) : LastWriters(i, w) \subseteq Pred0[i]

\* What the read-set does hold: the first word of the mask and both vector
\* operands in full, and their last writers are in pred.
C34_VselectReadsFirstMaskWord ==
    \A i \in 1..NOps :
        (EngineOf(i) = "flow" /\ sched.slots[i][2][1] = "vselect") =>
            /\ sched.op_reads[i] = {sched.slots[i][2][3]} \cup VRange(sched.slots[i][2][4])
                                      \cup VRange(sched.slots[i][2][5])
            /\ \A w \in sched.op_reads[i] : LastWriters(i, w) \subseteq Pred0[i]

\* ---------------------------------------------------------------- C36
\* the stream without its debug ops, and bundles without their debug slots
NoDebugOps(slots) == SelectSeq(slots, LAMBDA op : op[1] # "debug")

StripDebug(instrs) == [k \in 1..Len(instrs) |-> [instrs[k] EXCEPT !["debug"] = <<>>]]

\* C36: for any stream, the schedule of the stream without its debug ops
\* has as many bundles as the schedule of the stream, with the same
\* non-debug slots in the same order in each bundle.
C36_DebugNeverInfluences ==
    pc = "done" =>
        StripDebug(sched.instrs) = VLIWBuild(NoDebugOps(sched.slots), TRUE)

\* C36 as it holds: the same for any stream that holds an op other than a
\* debug op.  A stream of debug ops alone is one bundle; without them it is
\* no bundle at all.
C36_DebugNeverInfluencesOthers ==
    (pc = "done" /\ NoDebugOps(sched.slots) # <<>>) =>
        StripDebug(sched.instrs) = VLIWBuild(NoDebugOps(sched.slots), TRUE)

\* A returned schedule of two bundles or more for a stream with a debug op
\* between two other ops, in which an op waited for a same-cycle WAR.
C36_Witness ==
    /\ pc = "done"
    /\ NOps = 3 /\ EngineOf(2) = "debug" /\ NonDebug(1) /\ NonDebug(3)
    /\ Len(sched.instrs) >= 2
    /\ sched.war_pred[3] # {}

\* ---------------------------------------------------------------- C37
DebugOps == {i \in 1..NOps : EngineOf(i) = "debug"}

\* C37: once the first bundle of a stream is emitted it holds every debug op
\* of the stream, and no later bundle holds one.
C37_DebugInFirstBundle ==
    sched.cycles # <<>> =>
        /\ DebugOps \subseteq SeqRange(sched.cycles[1])
        /\ Len(sched.instrs[1]["debug"]) = Cardinality(DebugOps)
        /\ \A k \in 2..Len(sched.instrs) : sched.instrs[k]["debug"] = <<>>

\* The last op of a returned stream is a debug op that observes a vector
\* whose writer, an earlier op of the stream, is in the second bundle.
C37_Witness ==
    /\ pc = "done"
    /\ NOps >= 2 /\ EngineOf(NOps) = "debug"
    /\ \E a \in 1..(NOps - 1) :
          /\ sched.slots[NOps][2][2] \in sched.op_writes[a]
          /\ CycleOf(a) = 2

\* ---------------------------------------------------------------- C35
\* key(i) < key(j), the key being (-height, engine priority, stream index)
KeyBefore(i, j) ==
    \/ sched.height[i] > sched.height[j]
    \/ /\ sched.height[i] = sched.height[j]
       /\ engine_priority(EngineOf(i)) < engine_priority(EngineOf(j))
    \/ /\ sched.height[i] = sched.height[j]
       /\ engine_priority(EngineOf(i)) = engine_priority(EngineOf(j))
       /\ i < j

\* the ops of the bundle of the pass, in the order they were placed
NewBundleSeq ==
    IF Len(sched'.cycles) > Len(sched.cycles) THEN sched'.cycles[Len(sched'.cycles)] ELSE <<>>

\* no earlier reader of a word op i writes is still unplaced at the head of
\* the cycle
NoWarPending(i) == sched.war_pred[i] \subseteq sched.scheduled

\* op i neither reads nor writes a word another op of the bundle writes
NoBundleHazard(i) ==
    \A x \in NewBundleOps \ {i} :
        sched.op_writes[x] \cap (sched.op_reads[i] \cup sched.op_writes[i]) = {}

ReadyOf(e) == {i \in SeqRange(sched.ready) : EngineOf(i) = e}

\* C35: in each cycle the ready ops are attempted in ascending order of the
\* key (-height, engine priority load < store < valu < alu < flow < debug,
\* stream index): with no WAR pending the ops of the bundle were placed in
\* that order, and when more ready ops of one engine than the engine has
\* slots compete and none is blocked by a WAR or a same-bundle hazard, every
\* placed one has a smaller key than every deferred one.
C35_ReadyAttemptedByKey ==
    [][(pc = "cycle" /\ sched.ready # <<>>) =>
          /\ (\A i \in SeqRange(sched.ready) : NoWarPending(i)) =>
                \A m, n \in 1..Len(NewBundleSeq) :
                    m < n => KeyBefore(NewBundleSeq[m], NewBundleSeq[n])
          /\ \A e \in Engines \ {"debug"} :
                (/\ Cardinality(ReadyOf(e)) > Limit(e)
                 /\ \A i \in ReadyOf(e) : NoWarPending(i) /\ NoBundleHazard(i))
                => /\ Cardinality(ReadyOf(e) \cap NewBundleOps) = Limit(e)
                   /\ \A p \in ReadyOf(e) \cap NewBundleOps :
                      \A d \in ReadyOf(e) \ NewBundleOps : KeyBefore(p, d)]_vars

\* The first bundle holds an op of an engine with one slot while an earlier
\* op of the stream, of the same engine, ready from the start and free of
\* hazards, was deferred: the placed op is the higher one.
C35_Witness ==
    /\ Len(sched.cycles) >= 1
    /\ \E p \in SeqRange(sched.cycles[1]) : \E d \in 1..NOps :
          /\ d < p /\ EngineOf(d) = EngineOf(p) /\ NonDebug(p)
          /\ Limit(EngineOf(p)) = 1
          /\ Pred0[d] = {} /\ sched.war_pred[d] = {}
          /\ d \notin SeqRange(sched.cycles[1])
          /\ sched.height[p] > sched.height[d]
          /\ \A x \in SeqRange(sched.cycles[1]) :
                sched.op_writes[x] \cap (sched.op_reads[d] \cup sched.op_writes[d]) = {}

\* ---------------------------------------------------------------- C38
\* the words written by the ops of the bundle of the pass
NewBundleWrites == UNION {sched.op_writes[x] : x \in NewBundleOps}

\* op d, left on the ready list, could not have joined the bundle of the pass
BlockedAgainstBundle(d) ==
    \/ \E p \in sched.war_pred[d] : p \notin sched'.scheduled
    \/ Cardinality({x \in NewBundleOps : EngineOf(x) = EngineOf(d)}) >= Limit(EngineOf(d))
    \/ sched.op_reads[d] \cap NewBundleWrites # {}
    \/ sched.op_writes[d] \cap NewBundleWrites # {}

GreedyCycle ==
    (pc = "cycle" /\ sched.ready # <<>>) =>
        \A d \in SeqRange(sched.ready) \ NewBundleOps : BlockedAgainstBundle(d)

\* op 1 is a producer and every other op of the stream a consumer of its
\* result, the consumers independent of one another and of the producer's
\* operands, no more of them on an engine than the engine has slots; reads
\* and writes as the sets R and W give them
ProducerConsumers(R(_), W(_)) ==
    /\ NOps >= 2
    /\ \A i \in 1..NOps : NonDebug(i)
    /\ \A i \in 2..NOps :
          /\ W(1) \cap R(i) # {}
          /\ W(i) \cap (R(1) \cup W(1)) = {}
          /\ \A j \in 2..NOps : i # j => W(i) \cap (R(j) \cup W(j)) = {}
    /\ \A e \in Engines :
          Cardinality({i \in 2..NOps : EngineOf(i) = e}) <= Limit(e)

\* C38: when a bundle is emitted, every op that was ready at the start of
\* the cycle and was not placed is blocked against the final bundle by an
\* unscheduled WAR predecessor, a full engine, a read of a word written in
\* the bundle or a write to a word written in the bundle; and a producer
\* followed by k independent consumers of its result, k within the engine
\* limit, is returned as exactly two bundles.
C38_GreedyWithinCycle ==
    [][/\ GreedyCycle
       /\ (pc' = "done" /\ ProducerConsumers(TrueReads, TrueWrites))
             => Len(sched'.instrs) = 2]_vars

\* The same with a consumer taken to be an op whose extracted read-set holds
\* a word of the producer's write-set: this holds.
C38_GreedyOnExtractedSets ==
    [][/\ GreedyCycle
       /\ (pc' = "done" /\ ProducerConsumers(LAMBDA i : sched.op_reads[i],
                                             LAMBDA i : sched.op_writes[i]))
             => Len(sched'.instrs) = 2]_vars

\* reached: the unit case, a load and two alu consumers of its result under
\* the limits {load: 1, alu: 2}, returned as two bundles; and a pass that
\* left a ready op behind
C38_UnitCase ==
    /\ pc = "done"
    /\ NOps = 3 /\ EngineOf(1) = "load" /\ EngineOf(2) = "alu" /\ EngineOf(3) = "alu"
    /\ ProducerConsumers(TrueReads, TrueWrites)
    /\ Limit("load") = 1 /\ Limit("alu") = 2
    /\ Len(sched.instrs) = 2

\* ---------------------------------------------------------------------------
\* Finalisation: the addresses the packed vector stores use.
\* ---------------------------------------------------------------------------

\* the bundles of the finalisation stream (the last stream handed over)
FinalRange ==
    IF pc \in {"built", "run", "ran"}
    THEN streams[Len(streams)].first ..
         (streams[Len(streams)].first + streams[Len(streams)].count - 1)
    ELSE {}
\* the bundle the machine executes next lies in the finalisation stream
AtFinalBundle ==
    /\ pc = "run"
    /\ mach.state = "running"
    /\ mach.pc \in FinalRange
\* the address a vector store of vector v has to use
StoreAddressOf(v) ==
    {mach.image[5] + (b - 1) * VLEN :
        b \in {c \in 1..kern.loc.num_batches : kern.loc.v_idx[c] = v}}
    \cup
    {mach.image[6] + (b - 1) * VLEN :
        b \in {c \in 1..kern.loc.num_batches : kern.loc.v_val[c] = v}}

\* C32: in the scheduled finalisation every vector store finds in tmp_addr,
\* at the cycle it executes, the address of its own vector: inp_indices_p +
\* b*VLEN for v_idx[b] and inp_values_p + b*VLEN for v_val[b]; and at the end
\* of the run the index and value regions of memory hold the vectors.
C32_StoresUseOwnAddress ==
    /\ AtFinalBundle =>
         \A op \in SeqRange(kern.kb.instrs[mach.pc]["store"]) :
            /\ op[1] = "vstore"
            /\ op[2] = kern.loc.tmp_addr
            /\ StoreAddressOf(op[3]) = {mach.scratch[op[2]]}
    /\ (pc = "run" /\ mach.state = "running"
          /\ mach.pc = Len(kern.kb.instrs) + 1) =>
         \A b \in 1..kern.loc.num_batches : \A lane \in 0..(VLEN - 1) :
            /\ mach.mem[mach.image[5] + (b - 1) * VLEN + lane]
                 = mach.scratch[kern.loc.v_idx[b] + lane]
            /\ mach.mem[mach.image[6] + (b - 1) * VLEN + lane]
                 = mach.scratch[kern.loc.v_val[b] + lane]
\* a bundle of the finalisation that holds a vector store together with the
\* ALU op forming the next address, in a kernel of two batches
C32_Witness ==
    /\ AtFinalBundle
    /\ kern.loc.num_batches = 2
    /\ kern.kb.instrs[mach.pc]["store"] # <<>>
    /\ \E op \in SeqRange(kern.kb.instrs[mach.pc]["alu"]) :
          op[2] = kern.loc.tmp_addr

\* ---------------------------------------------------------------------------
\* The temporaries of successive batches in a round's op stream.
\* ---------------------------------------------------------------------------

\* the words of the temporary vectors: the two rotating pools and v_tmp3
PoolWords ==
    UNION {VRange(kern.loc.v_tmp1[p]) \cup VRange(kern.loc.v_tmp2[p]) :
           p \in 1..N_TMP_POOLS}
TempWords == PoolWords \cup VRange(kern.loc.v_tmp3)
\* the round streams handed to the scheduler so far
RoundsHanded == 2..(1 + kern.round_num)
\* the words op i of stream k touches on the machine
TouchedBy(k, i) ==
    MachineReads(streams[k].ops[i][1], streams[k].ops[i][2])
      \cup MachineWrites(streams[k].ops[i][1], streams[k].ops[i][2])
\* the batches whose index, value or node-value vector op i of stream k touches
BatchesTouched(k, i) ==
    {b \in 1..kern.loc.num_batches :
        TouchedBy(k, i) \cap (VRange(kern.loc.v_idx[b]) \cup VRange(kern.loc.v_val[b])
                                \cup VRange(kern.loc.v_node_val[b])) # {}}
\* the batch op i of stream k belongs to, 0 for an op of no batch; the
\* broadcast of tree_1 into v_tmp3 names no vector of its batch and stands
\* right before the broadcast of tree_2 of the same loop iteration
BatchOfOp(k, i) ==
    IF BatchesTouched(k, i) # {} THEN The(BatchesTouched(k, i))
    ELSE IF /\ streams[k].ops[i] = <<"valu", <<"vbroadcast", kern.loc.v_tmp3, kern.loc.tree_1>>>>
            /\ i < Len(streams[k].ops)
            /\ BatchesTouched(k, i + 1) # {}
         THEN The(BatchesTouched(k, i + 1))
    ELSE 0
\* ops i < j of stream k have a RAW, WAW or WAR dependency through a word of T
DependThrough(k, i, j, T) ==
    LET ri == get_reads(streams[k].ops[i][1], streams[k].ops[i][2])
        wi == get_writes(streams[k].ops[i][1], streams[k].ops[i][2])
        rj == get_reads(streams[k].ops[j][1], streams[k].ops[j][2])
        wj == get_writes(streams[k].ops[j][1], streams[k].ops[j][2])
    IN ((wi \cap rj) \cup (wi \cap wj) \cup (ri \cap wj)) \cap T # {}
\* no two ops of different batches modulo the pool size depend through T
BatchesIndependentThrough(T) ==
    \A k \in RoundsHanded :
       \A i \in 1..Len(streams[k].ops) : \A j \in (i + 1)..Len(streams[k].ops) :
          (/\ BatchOfOp(k, i) # 0
           /\ BatchOfOp(k, j) # 0
           /\ BatchOfOp(k, i) % N_TMP_POOLS # BatchOfOp(k, j) % N_TMP_POOLS)
          => ~DependThrough(k, i, j, T)

\* C33: in every round stream two ops that belong to batches b and b' with
\* b mod 6 # b' mod 6 have no RAW, WAW or WAR dependency through a word of a
\* temporary vector.
C33_BatchTemporariesIndependent ==
    pc \in {"rounds", "raised", "built"} => BatchesIndependentThrough(TempWords)
\* the same through the words of the rotating pools only
C33_PoolTemporariesIndependent ==
    pc \in {"rounds", "raised", "built"} => BatchesIndependentThrough(PoolWords)
\* a round stream of two batches in which both used a vector of the pool
C33_PoolUsed ==
    /\ pc = "rounds"
    /\ kern.loc.num_batches = 2
    /\ \E k \in RoundsHanded :
          \E i, j \in 1..Len(streams[k].ops) :
             /\ BatchOfOp(k, i) = 1
             /\ BatchOfOp(k, j) = 2
             /\ TouchedBy(k, i) \cap PoolWords # {}
             /\ TouchedBy(k, j) \cap PoolWords # {}

\* ---------------------------------------------------------------------------
\* Loads from main memory and stores in the emitted program.
\* ---------------------------------------------------------------------------

\* a load slot that reads main memory (a const load reads none)
IsMemoryLoad(slot) == slot[1] \in {"load", "vload"}
\* bundle j of the emitted program holds a load from main memory / a store
HoldsMemoryLoad(j) ==
    \E slot \in SeqRange(kern.kb.instrs[j]["load"]) : IsMemoryLoad(slot)
HoldsStore(j) == kern.kb.instrs[j]["store"] # <<>>
\* stream k as handed to the scheduler holds a load from main memory / a store
StreamLoads(k) ==
    \E op \in SeqRange(streams[k].ops) : op[1] = "load" /\ IsMemoryLoad(op[2])
StreamStores(k) ==
    \E op \in SeqRange(streams[k].ops) : op[1] = "store"

\* C39: in the bundles accumulated so far every bundle that holds a load from
\* main memory stands before every bundle that holds a store, and no op
\* stream handed to the scheduler holds both a store and a memory load.
C39_LoadsPrecedeStores ==
    /\ \A j, k \in 1..Len(kern.kb.instrs) :
          (HoldsMemoryLoad(j) /\ HoldsStore(k)) => j < k
    /\ \A k \in 1..Len(streams) : ~(StreamLoads(k) /\ StreamStores(k))
\* a finished build of two batches, with memory loads in the initialisation
\* and in a gather round, and the stores of the finalisation
C39_Witness ==
    /\ pc = "built"
    /\ kern.loc.num_batches = 2
    /\ kern.rounds >= 3
    /\ StreamLoads(1)
    /\ StreamLoads(Len(streams) - 1)
    /\ StreamStores(Len(streams))
    /\ \E j \in 1..Len(kern.kb.instrs) : HoldsMemoryLoad(j)
    /\ \E k \in 1..Len(kern.kb.instrs) : HoldsStore(k)

\* ---------------------------------------------------------------------------
\* The words of the constants and of the header variables are written once.
\* ---------------------------------------------------------------------------

\* the ops that may write scratch word w: the const load of the scalar
\* constant that lives there, the broadcast of the vector constant that
\* covers it, the header load of the header variable that lives there
OwnInitOps(w) ==
    {<<"load", <<"const", w, v>>>> :
        v \in {u \in DOMAIN kern.kb.const_map : kern.kb.const_map[u] = w}}
    \cup
    {<<"valu", <<"vbroadcast", kern.kb.vec_const_map[v], kern.kb.const_map[v]>>>> :
        v \in {u \in DOMAIN kern.kb.vec_const_map : w \in VRange(kern.kb.vec_const_map[u])}}
    \cup
    {<<"load", <<"load", w, kern.kb.scratch[<<"tmp1">>]>>>> :
        i \in {k \in 1..Len(init_vars) : kern.kb.scratch[<<init_vars[k]>>] = w}}
\* the words of the scalar constants, the vector constants and the header
ProtectedWords ==
    IF pc = "build" THEN {}
    ELSE {kern.kb.const_map[v] : v \in DOMAIN kern.kb.const_map}
         \cup UNION {VRange(kern.kb.vec_const_map[v]) : v \in DOMAIN kern.kb.vec_const_map}
         \cup {kern.kb.scratch[<<init_vars[k]>>] : k \in 1..Len(init_vars)}
\* the ops of bundle j that write word w on the machine
WritersIn(j, w) ==
    {k \in 1..Len(EmittedOps(j)) :
        w \in MachineWrites(EmittedOps(j)[k][1], EmittedOps(j)[k][2])}
\* the bundles that write word w
WrittenAt(w) == {j \in 1..Len(kern.kb.instrs) : WritersIn(j, w) # {}}

\* C40: in the emitted program every op that writes a word of a scalar
\* constant, of a vector constant or of a header variable is the init op or
\* header load of that word, and no word of these is written a second time
\* (the program is looked at after each phase of the build).
C40_ConstantsWrittenOnce ==
    pc \in {"rounds", "raised", "built"} =>
       \A w \in ProtectedWords :
          /\ \A j \in WrittenAt(w) :
                /\ Cardinality(WritersIn(j, w)) = 1
                /\ \A k \in WritersIn(j, w) : EmittedOps(j)[k] \in OwnInitOps(w)
          /\ Cardinality(WrittenAt(w)) <= 1
\* a finished build whose rounds (a gather round among them) follow the init
\* ops, with scalar and vector constants, each protected word written
C40_Witness ==
    /\ pc = "built"
    /\ kern.rounds >= 3
    /\ kern.loc.num_batches = 2
    /\ DOMAIN kern.kb.vec_const_map # {}
    /\ DOMAIN kern.kb.const_map # {}
    /\ \A w \in ProtectedWords : Cardinality(WrittenAt(w)) = 1

\* ---------------------------------------------------------------------------
\* The gather pipeline: each load reads the address formed for its own batch.
\* ---------------------------------------------------------------------------

\* enough batches for a slot of the address ring to be used a second time
PipeBatches == MaxBatches + ADDR_RING - 1

\* build_kernel(forest_height, n_nodes, batch_size, rounds), built only
PipeInit ==
    /\ SLOT_LIMITS = MachineSlotLimits
    /\ weights \in {"fixed", "scarcity"}
    /\ sched = SchedStart(<<>>)
    /\ alloc = ScratchAllocator(VLEN, SCRATCH_SIZE)
    /\ calls = <<>>
    /\ \E forest_height \in 0..MaxHeight : \E rounds \in 1..MaxRounds :
       \E num_batches \in 1..PipeBatches :
          kern = [forest_height |-> forest_height,
                  n_nodes |-> NNodes(forest_height),
                  batch_size |-> num_batches * VLEN,
                  rounds |-> rounds,
                  kb |-> KernelBuilder, loc |-> <<>>, round_num |-> 0]
    /\ streams = <<>>
    /\ mach = MachineOff
    /\ pc = "build"

PipeNext ==
    \/ BuildKernelInit
    \/ BuildKernelRound
    \/ BuildKernelFinal

PipeSpec == PipeInit /\ [][PipeNext]_vars

\* the streams of the gather rounds handed over so far (rounds other than
\* 0, 1, 11 and 12; stream 1 is the initialisation)
GatherStreams ==
    {k \in RoundsHanded : (k - 2) \notin {0, 1, 11, 12}}
\* the address-forming ALU op and the scalar load of batch b (from 0), lane
AddressOp(b, lane) ==
    <<"+", kern.loc.idx_addr[(b % ADDR_RING) * VLEN + lane],
           kern.kb.scratch[<<"forest_values_p">>], kern.loc.v_idx[b + 1] + lane - 1>>
GatherLoadOp(b, lane) ==
    <<"load", kern.loc.v_node_val[b + 1] + lane - 1,
              kern.loc.idx_addr[(b % ADDR_RING) * VLEN + lane]>>
\* the bundles of stream k that hold the slot on the engine
BundlesOf(k, engine, slot) ==
    {j \in streams[k].first .. (streams[k].first + streams[k].count - 1) :
        slot \in SeqRange(kern.kb.instrs[j][engine])}

\* C31: in the bundles of every gather round, the scalar load of batch b,
\* lane l stands in one bundle, strictly later than the bundle of the ALU op
\* that forms the address of batch b, lane l, and not later than the bundle
\* of the ALU op of batch b+3 that forms its address in the same ring slot.
C31_LoadBetweenAddresses ==
    pc \in {"rounds", "raised", "built"} =>
       \A k \in GatherStreams :
          \A b \in 0..(kern.loc.num_batches - 1) : \A lane \in 1..VLEN :
             /\ Cardinality(BundlesOf(k, "alu", AddressOp(b, lane))) = 1
             /\ Cardinality(BundlesOf(k, "load", GatherLoadOp(b, lane))) = 1
             /\ \A ja \in BundlesOf(k, "alu", AddressOp(b, lane)) :
                \A jl \in BundlesOf(k, "load", GatherLoadOp(b, lane)) :
                   /\ ja < jl
                   /\ (b + ADDR_RING < kern.loc.num_batches) =>
                         \A jn \in BundlesOf(k, "alu", AddressOp(b + ADDR_RING, lane)) :
                            jl <= jn
\* a gather round in which a ring slot is used a second time, the address of
\* the later batch formed in the very bundle that loads through the slot
C31_Witness ==
    /\ pc = "built"
    /\ kern.loc.num_batches > ADDR_RING
    /\ \E k \in GatherStreams : \E lane \in 1..VLEN :
          BundlesOf(k, "load", GatherLoadOp(0, lane))
             \cap BundlesOf(k, "alu", AddressOp(ADDR_RING, lane)) # {}

====
